---- MODULE Spec2Model ----
(***************************************************************************)
(* Guest-side contract runtime of protocol-contracts (crate _sdk):         *)
(* the host boundary (ffi.rs), the validated execution context             *)
(* (context.rs), the typed storage layer (storage.rs) and the security     *)
(* primitives (security.rs).                                               *)
(*                                                                         *)
(* Strings are sequences of character codes, payloads are sequences of     *)
(* bytes.  The host is the in-memory table of MockRuntime; in addition a   *)
(* host call may report a nonzero status (the production backend's         *)
(* state_read / state_write), in which case it has no effect on the table. *)
(* The set F passed to an operation holds the ordinal numbers of the host  *)
(* calls of that operation that report a failure.                          *)
(***************************************************************************)
EXTENDS Integers, Sequences, FiniteSets, TLC

VARIABLES
    ENTERED_FLAG,   \* security.rs: static ENTERED_FLAG: AtomicBool
    guards,         \* live ReentrancyGuardGuard values obtained by enter() and held by the caller
    execStack,      \* execute() calls whose closure is running; each frame holds its guard
    threads,        \* threads calling enter(): where each is in its call and what it was returned
    storage,        \* MockRuntime.storage: (account, key) -> non-empty payload
    rt,             \* MockRuntime context fields: sender, contract_address, block_height, block_timestamp, value
    faulted,        \* history: a host call has reported a failure since the table was last cleared
    written,        \* history: (account, key) -> value of the last successful Storage.set not yet followed by a successful remove
    last            \* history: the last call, its arguments, its result and the host calls it made

vars == <<ENTERED_FLAG, guards, execStack, threads, storage, rt, faulted, written, last>>

guardVars == <<ENTERED_FLAG, guards, execStack, threads>>
storeVars == <<storage, rt, faulted, written>>

----------------------------------------------------------------------------
(* Bounds of the model *)

MaxGuards == 2      \* guards a caller holds at once
MaxDepth == 2       \* nested execute() closures
MaxVecLen == 2      \* pushes are cut off at this length
MaxThreads == 2     \* threads calling enter() at once
MaxTx == 1          \* transactions submitted to the multisig wallet
MaxApprovals == 2   \* entries of a transaction's approval list
MaxOps == 1         \* value of the timelock's operation_counter
MaxRoleCount == 1   \* value of a role count of the timelock
MaxProposals == 1   \* value of the governor's proposal_count
MaxTally == 4       \* votes counted on a proposal before another vote is cast

MaxOwnersLen == 3   \* length of the wallet's owners vector

Threads == 1 .. MaxThreads

(* Program constants *)

MIN_ADDRESS_LEN == 10
MAX_ADDRESS_LEN == 100
MAX_VARINT_BYTES == 10

----------------------------------------------------------------------------
(* Strings used by the code and by the model's inputs (character codes) *)

OWNER_KEY == <<95, 95, 97, 99, 95, 111, 119, 110, 101, 114>>        \* "__ac_owner"
ROLE_BUCKET == <<95, 95, 97, 99, 95, 114, 111, 108, 101, 115>>      \* "__ac_roles"
ADMIN == <<97, 100, 109, 105, 110>>                                 \* "admin"
COLON == <<58>>                                                      \* ":"
LEN_SUFFIX == <<58, 58, 108, 101, 110>>                             \* "::len"
ITEM_INFIX == <<58, 58, 105, 116, 101, 109, 58, 58>>                \* "::item::"

ContractA == <<99, 104, 101, 114, 116, 49, 99, 116, 114, 65>>       \* "chert1ctrA"
ContractB == <<99, 104, 101, 114, 116, 49, 99, 116, 114, 66>>       \* "chert1ctrB"
SenderS == <<99, 104, 101, 114, 116, 49, 115, 110, 100, 82>>        \* "chert1sndR"
EmptyStr == <<>>

----------------------------------------------------------------------------
(* Results: ContractResult<T> *)

\* The one element of a singleton set.  Only({e(x) : x \in {d}}) is LET x == d IN e(x)
\* with d evaluated once.
Only(S) == CHOOSE y \in S : TRUE

Ok(v) == [ok |-> TRUE, err |-> "", val |-> v]
Err(e) == [ok |-> FALSE, err |-> e, val |-> <<>>]
None == <<>>
Some(v) == <<v>>
Unit == <<>>

(* Typed values: [t |-> type, v |-> sequence]: a u64 n is <<n>>, a bool is <<0>> or <<1>>,
   the unit value is <<>>, a String is its character codes. *)
U64(n) == [t |-> "u64", v |-> <<n>>]
Bool(b) == [t |-> "bool", v |-> <<IF b THEN 1 ELSE 0>>]
UnitV == [t |-> "unit", v |-> <<>>]
Str(s) == [t |-> "String", v |-> s]

----------------------------------------------------------------------------
(* postcard wire format, as used by postcard::to_allocvec / postcard::from_bytes *)

RECURSIVE Varint(_)
Varint(n) == IF n < 128 THEN <<n>> ELSE <<(n % 128) + 128>> \o Varint(n \div 128)

\* Decodes a varint starting at data[i]; [ok, n, next].
RECURSIVE VarintDec(_, _, _, _)
VarintDec(data, i, k, acc) ==
    IF i > Len(data) \/ k > MAX_VARINT_BYTES THEN [ok |-> FALSE, n |-> 0, next |-> i]
    ELSE LET b == data[i] IN
         IF b < 128
         THEN IF k = MAX_VARINT_BYTES /\ b > 1
              THEN [ok |-> FALSE, n |-> 0, next |-> i]
              ELSE [ok |-> TRUE, n |-> acc + b * (128 ^ (k - 1)), next |-> i + 1]
         ELSE VarintDec(data, i + 1, k + 1, acc + (b - 128) * (128 ^ (k - 1)))

to_allocvec(val) ==
    CASE val.t = "u64" -> Varint(val.v[1])
      [] val.t = "bool" -> <<val.v[1]>>
      [] val.t = "unit" -> <<>>
      [] val.t = "String" -> Varint(Len(val.v)) \o val.v

\* from_bytes::<T>(data): [ok, val]; trailing bytes are ignored.
from_bytes(T, data) ==
    CASE T = "u64" ->
            LET d == VarintDec(data, 1, 1, 0) IN
            IF d.ok THEN [ok |-> TRUE, val |-> U64(d.n)] ELSE [ok |-> FALSE, val |-> UnitV]
      [] T = "bool" ->
            IF Len(data) >= 1 /\ data[1] \in {0, 1}
            THEN [ok |-> TRUE, val |-> Bool(data[1] = 1)]
            ELSE [ok |-> FALSE, val |-> UnitV]
      [] T = "unit" -> [ok |-> TRUE, val |-> UnitV]
      [] T = "String" ->
            LET d == VarintDec(data, 1, 1, 0) IN
            IF d.ok /\ d.next + d.n - 1 <= Len(data)
                    /\ \A j \in d.next .. (d.next + d.n - 1) : data[j] < 128
            THEN [ok |-> TRUE, val |-> Str(SubSeq(data, d.next, d.next + d.n - 1))]
            ELSE [ok |-> FALSE, val |-> UnitV]

----------------------------------------------------------------------------
(* Host boundary.  h = [st |-> table, calls |-> host calls made so far]. *)

Host(st) == [st |-> st, calls |-> <<>>]

Lookup(st, account, key) ==
    IF <<account, key>> \in DOMAIN st THEN st[<<account, key>>] ELSE <<>>

\* MockRuntime::write_storage on the table: an empty value removes the entry.
TableWrite(st, account, key, value) ==
    IF value = <<>>
    THEN [x \in DOMAIN st \ {<<account, key>>} |-> st[x]]
    ELSE [x \in DOMAIN st \cup {<<account, key>>} |->
            IF x = <<account, key>> THEN value ELSE st[x]]

read_storage(h, F, account, key) ==
    LET n == Len(h.calls) + 1
        failed == n \in F
        call == [rw |-> "read", account |-> account, key |-> key, ok |-> ~failed]
    IN [h |-> [h EXCEPT !.calls = Append(h.calls, call)],
        res |-> IF failed THEN Err("StorageReadFailed") ELSE Ok(Lookup(h.st, account, key))]

write_storage(h, F, account, key, value) ==
    LET n == Len(h.calls) + 1
        failed == n \in F
        call == [rw |-> "write", account |-> account, key |-> key, ok |-> ~failed]
    IN [h |-> [st |-> IF failed THEN h.st ELSE TableWrite(h.st, account, key, value),
               calls |-> Append(h.calls, call)],
        res |-> IF failed THEN Err("StorageWriteFailed") ELSE Ok(Unit)]

----------------------------------------------------------------------------
(* u64 quantities beyond the model checker's integers: three limbs base 10^9,
   most significant first. *)

LIMB == 10 ^ 9
Big(n) == <<0, n \div LIMB, n % LIMB>>
BigSucc(a) ==
    IF a[3] + 1 < LIMB THEN <<a[1], a[2], a[3] + 1>>
    ELSE IF a[2] + 1 < LIMB THEN <<a[1], a[2] + 1, 0>>
    ELSE <<a[1] + 1, 0, 0>>
BigGt(a, b) ==
    \/ a[1] > b[1]
    \/ a[1] = b[1] /\ a[2] > b[2]
    \/ a[1] = b[1] /\ a[2] = b[2] /\ a[3] > b[3]

MAX_BLOCK_HEIGHT == <<0, 1000000, 0>>           \* 1_000_000_000_000_000
MAX_BLOCK_TIMESTAMP == <<0, 10000, 0>>          \* 10_000_000_000_000
U64_MAX == <<18, 446744073, 709551615>>         \* u64::MAX

----------------------------------------------------------------------------
(* Execution context *)

\* A check that rejects the lower bound itself.
validate_address_Exclusive(address) ==
    IF Len(address) = 0 THEN Err("InvalidArgument")
    ELSE IF Len(address) <= MIN_ADDRESS_LEN \/ Len(address) > MAX_ADDRESS_LEN
         THEN Err("InvalidArgument")
         ELSE Ok(Unit)

validate_address(address) ==
    IF Len(address) = 0 THEN Err("InvalidArgument")
    ELSE IF Len(address) < MIN_ADDRESS_LEN \/ Len(address) > MAX_ADDRESS_LEN
         THEN Err("InvalidArgument")
         ELSE Ok(Unit)

\* A check that rejects the bounds themselves.
ensure_block_parameters_Exclusive(height, timestamp) ==
    IF ~BigGt(MAX_BLOCK_HEIGHT, height) THEN Err("InvalidArgument")
    ELSE IF ~BigGt(MAX_BLOCK_TIMESTAMP, timestamp) THEN Err("InvalidArgument")
    ELSE IF timestamp = Big(0) THEN Err("InvalidArgument")
    ELSE IF height = U64_MAX THEN Err("InvalidArgument")
    ELSE Ok(Unit)

ensure_block_parameters(height, timestamp) ==
    IF BigGt(height, MAX_BLOCK_HEIGHT) THEN Err("InvalidArgument")
    ELSE IF BigGt(timestamp, MAX_BLOCK_TIMESTAMP) THEN Err("InvalidArgument")
    ELSE IF timestamp = Big(0) THEN Err("InvalidArgument")
    ELSE IF height = U64_MAX THEN Err("InvalidArgument")
    ELSE Ok(Unit)

try_context(r) ==
    IF ~validate_address(r.sender).ok THEN Err("InvalidArgument")
    ELSE IF ~validate_address(r.contract_address).ok THEN Err("InvalidArgument")
    ELSE IF ~ensure_block_parameters(r.block_height, r.block_timestamp).ok
         THEN Err("InvalidArgument")
    ELSE Ok(r)

\* ContractError::InsufficientBalance { required, available }
InsufficientBalance(required, available) ==
    [ok |-> FALSE, err |-> "InsufficientBalance",
     val |-> [required |-> required, available |-> available]]

\* A check that also refuses a value equal to the amount required.
require_min_value_Exclusive(ctx, required) ==
    IF ~BigGt(ctx.value, required) THEN InsufficientBalance(required, ctx.value)
    ELSE Ok(Unit)

\* Context::require_min_value: self.value < required
require_min_value(ctx, required) ==
    IF BigGt(required, ctx.value) THEN InsufficientBalance(required, ctx.value)
    ELSE Ok(Unit)

----------------------------------------------------------------------------
(* Storage *)

Storage_get_read(h, F, T, account, key) ==
    Only({ IF rd.res.ok
           THEN IF rd.res.val = <<>>
                THEN [h |-> rd.h, res |-> Ok(None)]
                ELSE Only({ [h |-> rd.h,
                             res |-> IF d.ok THEN Ok(Some(d.val))
                                     ELSE Err("DeserializationFailed")]
                            : d \in {from_bytes(T, rd.res.val)} })
           ELSE IF rd.res.err = "StorageReadFailed"
                THEN [h |-> rd.h, res |-> Ok(None)]
                ELSE [h |-> rd.h, res |-> rd.res]
           : rd \in {read_storage(h, F, account, key)} })

\* A get that reads the host without validating the context.
Storage_get_NoContext(h, F, r, T, key) ==
    Storage_get_read(h, F, T, r.contract_address, key)

Storage_get(h, F, r, T, key) ==
    Only({ IF ~ctx.ok THEN [h |-> h, res |-> Err(ctx.err)]
           ELSE Storage_get_read(h, F, T, ctx.val.contract_address, key)
           : ctx \in {try_context(r)} })

\* A set that leaves an entry that is already there as it is.
Storage_set_Stale(h, F, r, key, value) ==
    Only({ IF ~ctx.ok THEN [h |-> h, res |-> Err(ctx.err)]
           ELSE IF Lookup(h.st, ctx.val.contract_address, key) # <<>>
                THEN [h |-> h, res |-> Ok(Unit)]
                ELSE write_storage(h, F, ctx.val.contract_address, key, to_allocvec(value))
           : ctx \in {try_context(r)} })

Storage_set(h, F, r, key, value) ==
    Only({ IF ~ctx.ok THEN [h |-> h, res |-> Err(ctx.err)]
           ELSE write_storage(h, F, ctx.val.contract_address, key, to_allocvec(value))
           : ctx \in {try_context(r)} })

\* A remove that writes a one-byte marker instead of the empty payload.
Storage_remove_Zero(h, F, r, key) ==
    Only({ IF ~ctx.ok THEN [h |-> h, res |-> Err(ctx.err)]
           ELSE write_storage(h, F, ctx.val.contract_address, key, <<0>>)
           : ctx \in {try_context(r)} })

Storage_remove(h, F, r, key) ==
    Only({ IF ~ctx.ok THEN [h |-> h, res |-> Err(ctx.err)]
           ELSE write_storage(h, F, ctx.val.contract_address, key, <<>>)
           : ctx \in {try_context(r)} })

\* Returns a plain boolean in res.
Storage_has(h, F, r, key) ==
    Only({ IF ~ctx.ok THEN [h |-> h, res |-> FALSE]
           ELSE Only({ [h |-> rd.h, res |-> IF rd.res.ok THEN rd.res.val # <<>> ELSE FALSE]
                       : rd \in {read_storage(h, F, ctx.val.contract_address, key)} })
           : ctx \in {try_context(r)} })

----------------------------------------------------------------------------
(* Initial state: a default MockRuntime, the flag clear. *)

NoCall == [op |-> "none", args |-> <<>>, res |-> Ok(Unit), calls |-> <<>>, pre |-> <<>>]

Init ==
    /\ ENTERED_FLAG = FALSE
    /\ guards = 0
    /\ execStack = <<>>
    /\ threads = [t \in Threads |-> [pc |-> "idle", res |-> Ok(Unit)]]
    /\ storage = <<>>
    /\ rt = [sender |-> EmptyStr, contract_address |-> EmptyStr,
             block_height |-> Big(0), block_timestamp |-> Big(0), value |-> Big(0)]
    /\ faulted = FALSE
    /\ written = <<>>
    /\ last = NoCall

\* The failure patterns of an operation that makes at most n host calls.
Failures(n) == SUBSET (1 .. n)

AnyFailed(calls) == \E i \in 1 .. Len(calls) : ~calls[i].ok

----------------------------------------------------------------------------
(* Test double: context setters *)

TestTimestamp == Big(1700000000)
TestHeight == Big(42)
TestValue == Big(1000)

\* MockRuntime::reset: sender and contract_address are left as they are.
MockReset(r) == [r EXCEPT !.block_height = Big(0), !.block_timestamp = Big(0), !.value = Big(0)]

prepare_mock_env ==
    /\ storage' = <<>>
    /\ faulted' = FALSE
    /\ written' = <<>>
    /\ rt' = [MockReset(rt) EXCEPT !.sender = SenderS, !.contract_address = ContractA,
                                   !.block_height = TestHeight,
                                   !.block_timestamp = TestTimestamp,
                                   !.value = TestValue]
    /\ last' = [NoCall EXCEPT !.op = "prepare_mock_env"]
    /\ UNCHANGED guardVars

\* mock::reset()
reset ==
    /\ storage' = <<>>
    /\ faulted' = FALSE
    /\ written' = <<>>
    /\ rt' = MockReset(rt)
    /\ last' = [NoCall EXCEPT !.op = "reset"]
    /\ UNCHANGED guardVars

\* mock::set_contract_address(a) for an a of S
SetContractAddress(S) ==
    \E a \in S :
        /\ rt' = [rt EXCEPT !.contract_address = a]
        /\ last' = [NoCall EXCEPT !.op = "set_contract_address", !.args = <<a>>]
        /\ UNCHANGED <<guardVars, storage, faulted, written>>

set_contract_address == SetContractAddress({EmptyStr, ContractA, ContractB})

\* mock::set_block_timestamp(t) for a t of S
SetBlockTimestamp(S) ==
    \E t \in S :
        /\ rt' = [rt EXCEPT !.block_timestamp = t]
        /\ last' = [NoCall EXCEPT !.op = "set_block_timestamp", !.args = <<t>>]
        /\ UNCHANGED <<guardVars, storage, faulted, written>>

set_block_timestamp == SetBlockTimestamp({Big(0), TestTimestamp})

----------------------------------------------------------------------------
(* Storage operations as calls *)

Key1 == <<107, 49>>     \* "k1"
Key2 == <<107, 50>>     \* "k2"
Keys == {Key1, Key2}
Values == {U64(1), U64(300), UnitV}
Types == {"u64", "unit"}

\* The account a Storage call addresses, when its context is valid.
Loc(r, key) == <<r.contract_address, key>>

Drop(f, x) == [y \in DOMAIN f \ {x} |-> f[y]]
Put(f, x, v) == [y \in DOMAIN f \cup {x} |-> IF y = x THEN v ELSE f[y]]

StorageGet ==
    \E k \in Keys, T \in Types, F \in Failures(1) :
        \E r \in {Storage_get(Host(storage), F, rt, T, k)} :
            /\ storage' = r.h.st
            /\ last' = [op |-> "get", args |-> <<k, T>>, res |-> r.res, calls |-> r.h.calls,
                        pre |-> <<>>]
            /\ faulted' = (faulted \/ AnyFailed(r.h.calls))
            /\ UNCHANGED <<guardVars, rt, written>>

StorageSet ==
    \E k \in Keys, v \in Values, F \in Failures(1) :
        \E r \in {Storage_set(Host(storage), F, rt, k, v)} :
            /\ storage' = r.h.st
            /\ written' = IF r.res.ok THEN Put(written, Loc(rt, k), v) ELSE written
            /\ last' = [op |-> "set", args |-> <<k, v>>, res |-> r.res, calls |-> r.h.calls,
                        pre |-> <<>>]
            /\ faulted' = (faulted \/ AnyFailed(r.h.calls))
            /\ UNCHANGED <<guardVars, rt>>

StorageRemove ==
    \E k \in Keys, F \in Failures(1) :
        \E r \in {Storage_remove(Host(storage), F, rt, k)} :
            /\ storage' = r.h.st
            /\ written' = IF r.res.ok THEN Drop(written, Loc(rt, k)) ELSE written
            /\ last' = [op |-> "remove", args |-> <<k>>, res |-> r.res, calls |-> r.h.calls,
                        pre |-> Lookup(storage, rt.contract_address, k)]
            /\ faulted' = (faulted \/ AnyFailed(r.h.calls))
            /\ UNCHANGED <<guardVars, rt>>

StorageHas ==
    \E k \in Keys, F \in Failures(1) :
        \E r \in {Storage_has(Host(storage), F, rt, k)} :
            /\ storage' = r.h.st
            /\ last' = [op |-> "has", args |-> <<k>>, res |-> Ok(<<r.res>>), calls |-> r.h.calls,
                        pre |-> <<>>]
            /\ faulted' = (faulted \/ AnyFailed(r.h.calls))
            /\ UNCHANGED <<guardVars, rt, written>>

NextStore ==
    \/ prepare_mock_env
    \/ set_contract_address
    \/ set_block_timestamp
    \/ StorageGet
    \/ StorageSet
    \/ StorageRemove
    \/ StorageHas

SpecStore == Init /\ [][NextStore]_vars

----------------------------------------------------------------------------
(* Claims about Storage, checked under SpecStore *)

ReadFailed(calls) == \E i \in 1 .. Len(calls) : calls[i].rw = "read" /\ ~calls[i].ok

\* The location a get reached on the host, and whether it is a get that reached the host
\* with a successful read of a location holding a value set with the type asked for.
GetLoc == <<last.calls[1].account, last.args[1]>>
GetOfWritten ==
    /\ last.op = "get"
    /\ Len(last.calls) = 1
    /\ last.calls[1].ok
    /\ GetLoc \in DOMAIN written
    /\ written[GetLoc].t = last.args[2]

\* C8: Storage.get tells a host read failure from an absent key: a get whose host read
\* reported a failure returns Err(StorageReadFailed), and a get returns Ok(None) only
\* when the payload stored under the key is empty or absent.
C8_GetSurfacesReadFailure ==
    last.op = "get" =>
        /\ ReadFailed(last.calls) => last.res = Err("StorageReadFailed")
        /\ last.res = Ok(None) => Lookup(storage, last.calls[1].account, last.args[1]) = <<>>

C10_RemoveIsTombstone ==
    [][(last'.op = "remove" /\ last'.res.ok) =>
        LET a == rt.contract_address
            k == last'.args[1]
        IN /\ \A T \in Types :
                /\ Storage_get(Host(storage'), {}, rt', T, k).res = Ok(None)
                /\ Storage_get(Host(<<>>), {}, rt', T, k).res = Ok(None)
           /\ Storage_has(Host(storage'), {}, rt', k).res = FALSE
           /\ Storage_has(Host(<<>>), {}, rt', k).res = FALSE
           /\ <<a, k>> \notin DOMAIN storage'
           /\ \A x \in (DOMAIN storage \cup DOMAIN storage') \ {<<a, k>>} :
                Lookup(storage', x[1], x[2]) = Lookup(storage, x[1], x[2])]_vars

C10_Witness ==
    /\ last.op = "remove"
    /\ last.res.ok
    /\ last.pre # <<>>
    /\ DOMAIN storage # {}

----------------------------------------------------------------------------
(* ReentrancyGuard *)

\* An enter that stores true without looking at the flag.
ReentrancyGuard_enter_Store(flag) == [flag |-> TRUE, res |-> Ok(Unit)]

\* ENTERED_FLAG.compare_exchange(false, true): the new flag and whether a guard is returned.
ReentrancyGuard_enter(flag) ==
    IF flag = FALSE
    THEN [flag |-> TRUE, res |-> Ok(Unit)]
    ELSE [flag |-> flag, res |-> Err("ReentrancyDetected")]

ReentrancyGuard_exit(flag) == FALSE

\* Drop for ReentrancyGuardGuard
ReentrancyGuardGuard_drop(flag) == ReentrancyGuard_exit(flag)

\* execute() after its closure returned fres: drop(guard); result
execute_return_Leak(flag, fres) ==
    IF fres.ok
    THEN [flag |-> ReentrancyGuardGuard_drop(flag), res |-> fres]
    ELSE [flag |-> flag, res |-> fres]

execute_return(flag, fres) ==
    [flag |-> ReentrancyGuardGuard_drop(flag), res |-> fres]

ClosureResults == {Ok(Unit), Err("Custom")}

Enter ==
    \E r \in {ReentrancyGuard_enter(ENTERED_FLAG)} :
        /\ r.res.ok => guards < MaxGuards
        /\ ENTERED_FLAG' = r.flag
        /\ guards' = IF r.res.ok THEN guards + 1 ELSE guards
        /\ last' = [NoCall EXCEPT !.op = "enter", !.res = r.res]
        /\ UNCHANGED <<execStack, threads, storeVars>>

DropGuard ==
    /\ guards > 0
    /\ guards' = guards - 1
    /\ ENTERED_FLAG' = ReentrancyGuardGuard_drop(ENTERED_FLAG)
    /\ last' = [NoCall EXCEPT !.op = "drop"]
    /\ UNCHANGED <<execStack, threads, storeVars>>

Exit ==
    /\ ENTERED_FLAG' = ReentrancyGuard_exit(ENTERED_FLAG)
    /\ last' = [NoCall EXCEPT !.op = "exit"]
    /\ UNCHANGED <<guards, execStack, threads, storeVars>>

\* execute(f) up to the call of f; a failed enter returns at once, f not run.
ExecuteCall ==
    \E fres \in ClosureResults :
        \E r \in {ReentrancyGuard_enter(ENTERED_FLAG)} :
            /\ r.res.ok => Len(execStack) < MaxDepth
            /\ ENTERED_FLAG' = r.flag
            /\ execStack' = IF r.res.ok THEN Append(execStack, fres) ELSE execStack
            /\ last' = IF r.res.ok
                       THEN [NoCall EXCEPT !.op = "execute_call", !.args = <<"running">>]
                       ELSE [NoCall EXCEPT !.op = "execute", !.args = <<"not run">>, !.res = r.res]
            /\ UNCHANGED <<guards, threads, storeVars>>

\* The innermost running closure returns; execute drops its guard and returns.
ExecuteReturn ==
    /\ execStack # <<>>
    /\ LET fres == execStack[Len(execStack)]
           r == execute_return(ENTERED_FLAG, fres)
       IN /\ ENTERED_FLAG' = r.flag
          /\ execStack' = SubSeq(execStack, 1, Len(execStack) - 1)
          /\ last' = [NoCall EXCEPT !.op = "execute", !.args = <<"ran", fres>>, !.res = r.res]
    /\ UNCHANGED <<guards, threads, storeVars>>

NextGuard ==
    \/ Enter
    \/ DropGuard
    \/ Exit
    \/ ExecuteCall
    \/ ExecuteReturn

SpecGuard == Init /\ [][NextGuard]_vars

\* Guarded sections that are active: guards held by callers and by running execute calls.
ActiveSections == guards + Len(execStack)

\* C1: at most one guarded section is active at any time.
C1_AtMostOneSection == ActiveSections <= 1

\* C6: an enter() made while a guard is held fails with ReentrancyDetected, and the
\* enter() that follows the drop of a guard succeeds.
C6_SecondEnterFails ==
    [][last'.op = "enter" =>
        /\ ActiveSections > 0 => last'.res = Err("ReentrancyDetected")
        /\ last.op = "drop" => last'.res.ok]_vars

\* C7: when execute(f) entered, the flag is false once it has returned, whether f
\* returned Ok or Err, and execute returns the result of f.
C7_ExecuteReleases ==
    (last.op = "execute" /\ last.args[1] = "ran") =>
        /\ ENTERED_FLAG = FALSE
        /\ last.res = last.args[2]

C7_Witness ==
    /\ last.op = "execute"
    /\ last.args[1] = "ran"
    /\ last.res = Err("Custom")
    /\ ENTERED_FLAG = FALSE

----------------------------------------------------------------------------
(* Vector<u64> *)

\* itoa::Buffer::format: the decimal digits of n.
RECURSIVE Itoa(_)
Itoa(n) == IF n < 10 THEN <<48 + n>> ELSE Itoa(n \div 10) \o <<48 + (n % 10)>>

len_key(prefix) == prefix \o LEN_SUFFIX
item_key(prefix, index) == prefix \o ITEM_INFIX \o Itoa(index)

\* A length served from the cache of a new instance, which is empty.
Vector_len_Cached(h, F, r, prefix) == [h |-> h, res |-> Ok(0)]

\* res.val is the length.
Vector_len(h, F, r, prefix) ==
    Only({ IF ~g.res.ok THEN g
           ELSE [h |-> g.h, res |-> Ok(IF g.res.val = None THEN 0 ELSE g.res.val[1].v[1])]
           : g \in {Storage_get(h, F, r, "u64", len_key(prefix))} })

Vector_get(h, F, r, prefix, index) ==
    Only({ IF ~l.res.ok THEN l
           ELSE IF index >= l.res.val THEN [h |-> l.h, res |-> Ok(None)]
           ELSE Storage_get(l.h, F, r, "u64", item_key(prefix, index))
           : l \in {Vector_len(h, F, r, prefix)} })

\* A set that does not check the index against the length.
Vector_set_Unchecked(h, F, r, prefix, index, value) ==
    Only({ IF ~l.res.ok THEN l
           ELSE Storage_set(l.h, F, r, item_key(prefix, index), value)
           : l \in {Vector_len(h, F, r, prefix)} })

Vector_set(h, F, r, prefix, index, value) ==
    Only({ IF ~l.res.ok THEN l
           ELSE IF index >= l.res.val THEN [h |-> l.h, res |-> Err("InvalidArgument")]
           ELSE Storage_set(l.h, F, r, item_key(prefix, index), value)
           : l \in {Vector_len(h, F, r, prefix)} })

\* push after the length was read: write the item, then the length.
Vector_push_at(h, F, r, prefix, len, value) ==
    Only({ IF ~w.res.ok THEN w
           ELSE Storage_set(w.h, F, r, len_key(prefix), U64(len + 1))
           : w \in {Storage_set(h, F, r, item_key(prefix, len), value)} })

Vector_push(h, F, r, prefix, value) ==
    Only({ IF ~l.res.ok THEN l
           ELSE Vector_push_at(l.h, F, r, prefix, l.res.val, value)
           : l \in {Vector_len(h, F, r, prefix)} })

\* pop after the last item was read as `value`: remove the item, then write the length.
Vector_pop_remove(h, F, r, prefix, len, value) ==
    Only({ IF ~d.res.ok THEN d
           ELSE Only({ IF ~w.res.ok THEN w ELSE [h |-> w.h, res |-> Ok(value)]
                       : w \in {Storage_set(d.h, F, r, len_key(prefix), U64(len - 1))} })
           : d \in {Storage_remove(h, F, r, item_key(prefix, len - 1))} })

Vector_pop(h, F, r, prefix) ==
    Only({ IF ~l.res.ok THEN l
           ELSE IF l.res.val = 0 THEN [h |-> l.h, res |-> Ok(None)]
           ELSE Only({ IF ~g.res.ok THEN g
                       ELSE Vector_pop_remove(g.h, F, r, prefix, l.res.val, g.res.val)
                       : g \in {Storage_get(l.h, F, r, "u64", item_key(prefix, l.res.val - 1))} })
           : l \in {Vector_len(h, F, r, prefix)} })

VecPrefix == <<118>>    \* "v"
Items == {U64(7), U64(9)}

\* The length field as stored for the current contract address (0 when absent).
StoredLen ==
    LET d == from_bytes("u64", Lookup(storage, rt.contract_address, len_key(VecPrefix))) IN
    IF d.ok THEN d.val.v[1] ELSE 0

VectorPush ==
    \E x \in Items, F \in Failures(3) :
        \E r \in {Vector_push(Host(storage), F, rt, VecPrefix, x)} :
            /\ StoredLen < MaxVecLen
            /\ storage' = r.h.st
            /\ last' = [op |-> "push", args |-> <<x>>, res |-> r.res, calls |-> r.h.calls,
                        pre |-> storage]
            /\ faulted' = (faulted \/ AnyFailed(r.h.calls))
            /\ UNCHANGED <<guardVars, rt, written>>

VectorPop ==
    \E F \in Failures(4) :
        \E r \in {Vector_pop(Host(storage), F, rt, VecPrefix)} :
            /\ storage' = r.h.st
            /\ last' = [op |-> "pop", args |-> <<>>, res |-> r.res, calls |-> r.h.calls,
                        pre |-> <<>>]
            /\ faulted' = (faulted \/ AnyFailed(r.h.calls))
            /\ UNCHANGED <<guardVars, rt, written>>

VectorSet ==
    \E i \in 0 .. MaxVecLen, x \in Items, F \in Failures(2) :
        \E r \in {Vector_set(Host(storage), F, rt, VecPrefix, i, x)} :
            /\ storage' = r.h.st
            /\ last' = [op |-> "vset", args |-> <<i, x>>, res |-> r.res, calls |-> r.h.calls,
                        pre |-> <<>>]
            /\ faulted' = (faulted \/ AnyFailed(r.h.calls))
            /\ UNCHANGED <<guardVars, rt, written>>

VectorGet ==
    \E i \in 0 .. MaxVecLen, F \in Failures(2) :
        \E r \in {Vector_get(Host(storage), F, rt, VecPrefix, i)} :
            /\ storage' = r.h.st
            /\ last' = [op |-> "vget", args |-> <<i>>, res |-> r.res, calls |-> r.h.calls,
                        pre |-> <<>>]
            /\ faulted' = (faulted \/ AnyFailed(r.h.calls))
            /\ UNCHANGED <<guardVars, rt, written>>

NextVec ==
    \/ prepare_mock_env
    \/ set_block_timestamp
    \/ VectorPush
    \/ VectorPop
    \/ VectorSet
    \/ VectorGet

SpecVec == Init /\ [][NextVec]_vars

\* C3: every index below the stored length holds a stored non-empty item, in every
\* state, also after calls that a failed host write aborted partway.
C3_IndicesPopulated ==
    \A i \in 0 .. (StoredLen - 1) :
        Lookup(storage, rt.contract_address, item_key(VecPrefix, i)) # <<>>

\* The vector as stored in table st for the current contract address.
LenIn(st) ==
    LET d == from_bytes("u64", Lookup(st, rt.contract_address, len_key(VecPrefix))) IN
    IF d.ok THEN d.val.v[1] ELSE 0
ItemIn(st, i) == Lookup(st, rt.contract_address, item_key(VecPrefix, i))

\* C11: when push(x) returned Ok and the pop() that follows it at once returns Ok, the pop
\* returns Some(x), and the length and the items below it are those before the push.
C11_PushPopRestores ==
    [][(/\ last.op = "push" /\ last.res.ok
        /\ last'.op = "pop" /\ last'.res.ok)
       => (/\ last'.res = Ok(Some(last.args[1]))
           /\ LenIn(storage') = LenIn(last.pre)
           /\ \A i \in 0 .. (LenIn(last.pre) - 1) : ItemIn(storage', i) = ItemIn(last.pre, i))]_vars

\* C12: with a valid context, pop() on an empty vector returns none, get(index) with
\* index >= len returns none and set(index, value) with index >= len fails
\* InvalidArgument, whatever the host answers; none of them changes the table.
C12_OutOfRangeLeavesVector ==
    [][(try_context(rt).ok /\ last'.op \in {"pop", "vget", "vset"}) =>
        /\ (last'.op = "pop" /\ StoredLen = 0)
              => (last'.res = Ok(None) /\ storage' = storage)
        /\ (last'.op = "vget" /\ last'.args[1] >= StoredLen)
              => (last'.res = Ok(None) /\ storage' = storage)
        /\ (last'.op = "vset" /\ last'.args[1] >= StoredLen)
              => (last'.res = Err("InvalidArgument") /\ storage' = storage)]_vars

\* A set at index = len of a vector that holds an item.
C12_Witness ==
    /\ last.op = "vset"
    /\ last.res = Err("InvalidArgument")
    /\ try_context(rt).ok
    /\ StoredLen = 1
    /\ last.args[1] = StoredLen
    /\ ItemIn(storage, 0) # <<>>
    /\ ItemIn(storage, 1) = <<>>

----------------------------------------------------------------------------
(* Map<String, bool> *)

\* blake3::hash, taken to be collision-free, with its fixed width: the digest of a
\* preimage shorter than the digest is its length, the preimage and zero padding.
DIGEST_LEN == 32
Blake3(bytes) ==
    <<Len(bytes)>> \o bytes \o [i \in 1 .. (DIGEST_LEN - 1 - Len(bytes)) |-> 0]

HexDigit(n) == IF n < 10 THEN 48 + n ELSE 87 + n

\* hex::encode_to_slice: two lower-case hex digits per byte.
RECURSIVE HexEncode(_)
HexEncode(bytes) ==
    IF bytes = <<>> THEN <<>>
    ELSE <<HexDigit(Head(bytes) \div 16), HexDigit(Head(bytes) % 16)>> \o HexEncode(Tail(bytes))

\* A key derivation that leaves the prefix out.
Map_storage_key_NoPrefix(prefix, key) == COLON \o HexEncode(Blake3(to_allocvec(key)))

Map_storage_key(prefix, key) == prefix \o COLON \o HexEncode(Blake3(to_allocvec(key)))

Map_get(h, F, r, prefix, T, key) == Storage_get(h, F, r, T, Map_storage_key(prefix, key))
Map_set(h, F, r, prefix, key, value) == Storage_set(h, F, r, Map_storage_key(prefix, key), value)
Map_remove(h, F, r, prefix, key) == Storage_remove(h, F, r, Map_storage_key(prefix, key))

\* res is Ok(boolean).
Map_contains_key(h, F, r, prefix, key) ==
    Only({ [h |-> g.h, res |-> Ok(g.res)]
           : g \in {Storage_has(h, F, r, Map_storage_key(prefix, key))} })

----------------------------------------------------------------------------
(* AccessControl *)

role_storage_key(role, address) == role \o COLON \o address

grant_role_internal(h, F, r, address, role) ==
    Map_set(h, F, r, ROLE_BUCKET, Str(role_storage_key(role, address)), Bool(TRUE))

revoke_role_internal(h, F, r, address, role) ==
    Map_remove(h, F, r, ROLE_BUCKET, Str(role_storage_key(role, address)))

\* res.val is a boolean.
has_role_internal(h, F, r, address, role) ==
    Only({ IF ~g.res.ok THEN g
           ELSE [h |-> g.h, res |-> Ok(IF g.res.val = None THEN FALSE ELSE g.res.val[1].v[1] = 1)]
           : g \in {Map_get(h, F, r, ROLE_BUCKET, "bool", Str(role_storage_key(role, address)))} })

read_owner(h, F, r) == Storage_get(h, F, r, "String", OWNER_KEY)

\* res.val is a boolean.
is_owner(h, F, r, address) ==
    Only({ IF ~o.res.ok THEN o
           ELSE [h |-> o.h, res |-> Ok(IF o.res.val = None THEN FALSE ELSE o.res.val[1].v = address)]
           : o \in {read_owner(h, F, r)} })

\* A check that lets every caller through.
is_owner_or_admin_Open(h, F, r, address) == [h |-> h, res |-> Ok(TRUE)]

is_owner_or_admin(h, F, r, address) ==
    Only({ IF ~o.res.ok THEN o
           ELSE IF o.res.val THEN [h |-> o.h, res |-> Ok(TRUE)]
           ELSE has_role_internal(o.h, F, r, address, ADMIN)
           : o \in {is_owner(h, F, r, address)} })

AccessControl_initialize(h, F, r, owner) ==
    Only({ IF ~w.res.ok THEN w
           ELSE grant_role_internal(w.h, F, r, owner, ADMIN)
           : w \in {Storage_set(h, F, r, OWNER_KEY, Str(owner))} })

\* Option<String> as None or Some(character codes).
AccessControl_owner(st, r) ==
    Only({ IF o.res.ok /\ o.res.val # None THEN Some(o.res.val[1].v) ELSE None
           : o \in {read_owner(Host(st), {}, r)} })

\* A has_role that answers true when the lookup fails.
AccessControl_has_role_host_True(h, F, r, address, role) ==
    Only({ [h |-> g.h, res |-> IF g.res.ok THEN g.res.val ELSE TRUE]
           : g \in {has_role_internal(h, F, r, address, role)} })

\* has_role as a call on host h: has_role_internal(..).unwrap_or(false); res is a boolean.
AccessControl_has_role_host(h, F, r, address, role) ==
    Only({ [h |-> g.h, res |-> IF g.res.ok THEN g.res.val ELSE FALSE]
           : g \in {has_role_internal(h, F, r, address, role)} })

\* has_role on table st with the host answering.
AccessControl_has_role(st, r, address, role) ==
    AccessControl_has_role_host(Host(st), {}, r, address, role).res

AccessControl_grant_role(h, F, r, granter, address, role) ==
    Only({ IF ~a.res.ok THEN a
           ELSE IF ~a.res.val THEN [h |-> a.h, res |-> Err("Unauthorized")]
           ELSE grant_role_internal(a.h, F, r, address, role)
           : a \in {is_owner_or_admin(h, F, r, granter)} })

AccessControl_revoke_role(h, F, r, revoker, address, role) ==
    Only({ IF ~a.res.ok THEN a
           ELSE IF ~a.res.val THEN [h |-> a.h, res |-> Err("Unauthorized")]
           ELSE revoke_role_internal(a.h, F, r, address, role)
           : a \in {is_owner_or_admin(h, F, r, revoker)} })

\* An authorize that looks at the owner only.
AccessControl_authorize_OwnerOnly(h, F, r, caller, required_role) ==
    Only({ IF ~o.res.ok THEN o
           ELSE IF o.res.val THEN [h |-> o.h, res |-> Ok(Unit)]
           ELSE [h |-> o.h, res |-> Err("Unauthorized")]
           : o \in {is_owner(h, F, r, caller)} })

\* required_role is None or Some(role).
AccessControl_authorize(h, F, r, caller, required_role) ==
    Only({ IF ~o.res.ok THEN o
           ELSE IF o.res.val THEN [h |-> o.h, res |-> Ok(Unit)]
           ELSE IF required_role = None THEN [h |-> o.h, res |-> Err("Unauthorized")]
           ELSE Only({ IF ~g.res.ok THEN g
                       ELSE IF g.res.val THEN [h |-> g.h, res |-> Ok(Unit)]
                       ELSE [h |-> g.h, res |-> Err("Unauthorized")]
                       : g \in {has_role_internal(o.h, F, r, caller, required_role[1])} })
           : o \in {is_owner(h, F, r, caller)} })

\* The three writes of transfer_ownership with the revocation made before the grant.
transfer_writes_RevokeFirst(h, F, r, current_owner, new_owner) ==
    Only({ IF ~w.res.ok THEN w
           ELSE Only({ IF ~g.res.ok THEN g
                       ELSE grant_role_internal(g.h, F, r, new_owner, ADMIN)
                       : g \in {revoke_role_internal(w.h, F, r, current_owner, ADMIN)} })
           : w \in {Storage_set(h, F, r, OWNER_KEY, Str(new_owner))} })

\* transfer_ownership after the owner check: set the owner, grant, revoke.
transfer_writes(h, F, r, current_owner, new_owner) ==
    Only({ IF ~w.res.ok THEN w
           ELSE Only({ IF ~g.res.ok THEN g
                       ELSE revoke_role_internal(g.h, F, r, current_owner, ADMIN)
                       : g \in {grant_role_internal(w.h, F, r, new_owner, ADMIN)} })
           : w \in {Storage_set(h, F, r, OWNER_KEY, Str(new_owner))} })

\* A transfer that an admin who is not the owner may make.
AccessControl_transfer_ownership_Admin(h, F, r, current_owner, new_owner) ==
    Only({ IF ~o.res.ok THEN o
           ELSE IF ~o.res.val THEN [h |-> o.h, res |-> Err("Unauthorized")]
           ELSE transfer_writes(o.h, F, r, current_owner, new_owner)
           : o \in {is_owner_or_admin(h, F, r, current_owner)} })

AccessControl_transfer_ownership(h, F, r, current_owner, new_owner) ==
    Only({ IF ~o.res.ok THEN o
           ELSE IF ~o.res.val THEN [h |-> o.h, res |-> Err("Unauthorized")]
           ELSE transfer_writes(o.h, F, r, current_owner, new_owner)
           : o \in {is_owner(h, F, r, current_owner)} })

AddrA == <<97, 108, 105, 99, 101>>      \* "alice"
AddrB == <<98, 111, 98>>                \* "bob"
Addresses == {AddrA, AddrB}
MINTER == <<109, 105, 110, 116, 101, 114>>  \* "minter"
Roles == {ADMIN, MINTER}

Initialize ==
    \E owner \in Addresses, F \in Failures(2) :
        \E r \in {AccessControl_initialize(Host(storage), F, rt, owner)} :
            /\ storage' = r.h.st
            /\ last' = [op |-> "initialize", args |-> <<owner>>, res |-> r.res,
                        calls |-> r.h.calls, pre |-> <<>>]
            /\ faulted' = (faulted \/ AnyFailed(r.h.calls))
            /\ UNCHANGED <<guardVars, rt, written>>

GrantRole ==
    \E granter \in Addresses, address \in Addresses, role \in Roles, F \in Failures(3) :
        \E r \in {AccessControl_grant_role(Host(storage), F, rt, granter, address, role)} :
            /\ storage' = r.h.st
            /\ last' = [op |-> "grant_role", args |-> <<granter, address, role>>, res |-> r.res,
                        calls |-> r.h.calls, pre |-> <<>>]
            /\ faulted' = (faulted \/ AnyFailed(r.h.calls))
            /\ UNCHANGED <<guardVars, rt, written>>

RevokeRole ==
    \E revoker \in Addresses, address \in Addresses, role \in Roles, F \in Failures(3) :
        \E r \in {AccessControl_revoke_role(Host(storage), F, rt, revoker, address, role)} :
            /\ storage' = r.h.st
            /\ last' = [op |-> "revoke_role", args |-> <<revoker, address, role>>, res |-> r.res,
                        calls |-> r.h.calls, pre |-> <<>>]
            /\ faulted' = (faulted \/ AnyFailed(r.h.calls))
            /\ UNCHANGED <<guardVars, rt, written>>

TransferOwnership ==
    \E current \in Addresses, new \in Addresses, F \in Failures(4) :
        \E r \in {AccessControl_transfer_ownership(Host(storage), F, rt, current, new)} :
            /\ storage' = r.h.st
            /\ last' = [op |-> "transfer_ownership", args |-> <<current, new>>, res |-> r.res,
                        calls |-> r.h.calls, pre |-> <<>>]
            /\ faulted' = (faulted \/ AnyFailed(r.h.calls))
            /\ UNCHANGED <<guardVars, rt, written>>

Authorize ==
    \E caller \in Addresses, role \in {None} \cup {Some(x) : x \in Roles}, F \in Failures(2) :
        \E r \in {AccessControl_authorize(Host(storage), F, rt, caller, role)} :
            /\ storage' = r.h.st
            /\ last' = [op |-> "authorize", args |-> <<caller, role>>, res |-> r.res,
                        calls |-> r.h.calls, pre |-> <<>>]
            /\ faulted' = (faulted \/ AnyFailed(r.h.calls))
            /\ UNCHANGED <<guardVars, rt, written>>

NextAC ==
    \/ prepare_mock_env
    \/ set_block_timestamp
    \/ Authorize
    \/ Initialize
    \/ GrantRole
    \/ RevokeRole
    \/ TransferOwnership

SpecAC == Init /\ [][NextAC]_vars

\* The calls of test_access_control's opening, on a runtime that tests reset or prepare.
NextACTest ==
    \/ reset
    \/ prepare_mock_env
    \/ Initialize
    \/ Authorize

SpecACTest == Init /\ [][NextACTest]_vars

WriteFailed(calls) == \E i \in 1 .. Len(calls) : calls[i].rw = "write" /\ ~calls[i].ok

\* C2: in every state reached through calls none of which met a host failure, the
\* stored owner holds the "admin" role.
C2_OwnerHoldsAdmin ==
    (~faulted /\ AccessControl_owner(storage, rt) # None)
        => AccessControl_has_role(storage, rt, AccessControl_owner(storage, rt)[1], ADMIN)

\* C4: after a successful transfer_ownership(current, new) the owner is new, new holds
\* "admin", and current, when it is another address, does not.
C4_TransferMovesAdmin ==
    (last.op = "transfer_ownership" /\ last.res.ok) =>
        /\ AccessControl_owner(storage, rt) = Some(last.args[2])
        /\ AccessControl_has_role(storage, rt, last.args[2], ADMIN)
        /\ last.args[1] # last.args[2]
              => ~AccessControl_has_role(storage, rt, last.args[1], ADMIN)

\* C5: a transfer_ownership(current, new) that one of its storage writes made fail, called
\* when current held "admin", leaves "admin" with current or with new.
C5_FailedTransferKeepsAnAdmin ==
    [][(/\ last'.op = "transfer_ownership"
        /\ WriteFailed(last'.calls)
        /\ AccessControl_has_role(storage, rt, last'.args[1], ADMIN))
       => (\/ AccessControl_has_role(storage', rt', last'.args[1], ADMIN)
           \/ AccessControl_has_role(storage', rt', last'.args[2], ADMIN))]_vars

\* A transfer whose last write, the revocation, failed: both addresses hold "admin".
C5_Witness ==
    /\ last.op = "transfer_ownership"
    /\ last.res = Err("StorageWriteFailed")
    /\ Len(last.calls) = 4
    /\ last.args[1] # last.args[2]
    /\ AccessControl_owner(storage, rt) = Some(last.args[2])
    /\ AccessControl_has_role(storage, rt, last.args[1], ADMIN)
    /\ AccessControl_has_role(storage, rt, last.args[2], ADMIN)

\* The caller of a call is the stored owner, or holds a role, in the state before the call.
IsStoredOwner(address) == AccessControl_owner(storage, rt) = Some(address)
HoldsRole(address, role) == AccessControl_has_role(storage, rt, address, role)

\* C13: an initialize(owner) whose host calls all succeed returns Ok, and afterwards
\* owner() is Some(owner), owner holds "admin" and authorize(owner, None) succeeds,
\* on a freshly reset test runtime as well.
C13_InitializeEstablishesOwner ==
    (last.op = "initialize" /\ ~AnyFailed(last.calls)) =>
        /\ last.res = Ok(Unit)
        /\ AccessControl_owner(storage, rt) = Some(last.args[1])
        /\ AccessControl_has_role(storage, rt, last.args[1], ADMIN)
        /\ AccessControl_authorize(Host(storage), {}, rt, last.args[1], None).res = Ok(Unit)

\* C14: grant_role and revoke_role return Ok only when the caller is the stored owner or
\* holds "admin"; for any other caller they fail Unauthorized (with a valid context) and
\* leave the table, the owner and every role in it, as it was.
C14_GrantRevokeNeedOwnerOrAdmin ==
    [][last'.op \in {"grant_role", "revoke_role"} =>
        LET authorized == IsStoredOwner(last'.args[1]) \/ HoldsRole(last'.args[1], ADMIN)
        IN /\ last'.res.ok => authorized
           /\ (~authorized /\ try_context(rt).ok) => last'.res = Err("Unauthorized")
           /\ ~authorized => storage' = storage]_vars

\* A grant refused to a caller that is neither the owner nor an admin, the host answering.
C14_Witness ==
    /\ last.op = "grant_role"
    /\ last.res = Err("Unauthorized")
    /\ ~AnyFailed(last.calls)
    /\ AccessControl_owner(storage, rt) # None
    /\ ~IsStoredOwner(last.args[1])
    /\ ~HoldsRole(last.args[1], ADMIN)
    /\ HoldsRole(last.args[1], MINTER)

C16_TransferNeedsOwner ==
    [][last'.op = "transfer_ownership" =>
        /\ last'.res.ok => IsStoredOwner(last'.args[1])
        /\ (~IsStoredOwner(last'.args[1]) /\ try_context(rt).ok)
              => last'.res = Err("Unauthorized")
        /\ ~IsStoredOwner(last'.args[1]) => storage' = storage]_vars

\* A transfer refused to an admin that is not the owner.
C16_Witness ==
    /\ last.op = "transfer_ownership"
    /\ last.res = Err("Unauthorized")
    /\ ~AnyFailed(last.calls)
    /\ AccessControl_owner(storage, rt) # None
    /\ ~IsStoredOwner(last.args[1])
    /\ HoldsRole(last.args[1], ADMIN)

----------------------------------------------------------------------------
(* The two queries that swallow failures: Storage.has and AccessControl.has_role *)

RoleKey(address, role) == Map_storage_key(ROLE_BUCKET, Str(role_storage_key(role, address)))

HasRole ==
    \E address \in Addresses, role \in Roles, F \in Failures(1) :
        \E r \in {AccessControl_has_role_host(Host(storage), F, rt, address, role)} :
            /\ storage' = r.h.st
            /\ last' = [op |-> "has_role", args |-> <<address, role>>, res |-> Ok(<<r.res>>),
                        calls |-> r.h.calls, pre |-> <<>>]
            /\ faulted' = (faulted \/ AnyFailed(r.h.calls))
            /\ UNCHANGED <<guardVars, rt, written>>

\* Map::<String, u64>::new("__ac_roles").set(key, value): a map of another value type
\* on the prefix of the role table.
RoleBucketSet ==
    \E address \in Addresses, role \in {MINTER}, v \in {U64(300)}, F \in Failures(1) :
        \E r \in {Map_set(Host(storage), F, rt, ROLE_BUCKET,
                           Str(role_storage_key(role, address)), v)} :
            /\ storage' = r.h.st
            /\ last' = [op |-> "role_bucket_set", args |-> <<address, role, v>>, res |-> r.res,
                        calls |-> r.h.calls, pre |-> <<>>]
            /\ faulted' = (faulted \/ AnyFailed(r.h.calls))
            /\ UNCHANGED <<guardVars, rt, written>>

NextQuery ==
    \/ prepare_mock_env
    \/ set_block_timestamp
    \/ Initialize
    \/ RoleBucketSet
    \/ StorageSet
    \/ StorageHas
    \/ HasRole

SpecQuery == Init /\ [][NextQuery]_vars

\* The payload under the role key of a has_role call is there and is not a bool.
Undecodable(address, role) ==
    LET payload == Lookup(storage, rt.contract_address, RoleKey(address, role)) IN
    payload # <<>> /\ ~from_bytes("bool", payload).ok

\* C17: Storage.has and AccessControl.has_role return a boolean and leave the table as it
\* is; the boolean is false when the execution context is invalid, when the host read
\* failed, and for has_role when the stored bytes do not decode.
C17_QueriesSwallowFailures ==
    [][last'.op \in {"has", "has_role"} =>
        /\ storage' = storage
        /\ last'.res.ok
        /\ last'.res.val \in {<<TRUE>>, <<FALSE>>}
        /\ (~try_context(rt).ok \/ AnyFailed(last'.calls)) => last'.res.val = <<FALSE>>
        /\ (last'.op = "has_role" /\ Undecodable(last'.args[1], last'.args[2]))
              => last'.res.val = <<FALSE>>]_vars

\* A has_role that reached bytes that are not a bool, the context valid, the host answering.
C17_Witness ==
    /\ last.op = "has_role"
    /\ last.res = Ok(<<FALSE>>)
    /\ try_context(rt).ok
    /\ Len(last.calls) = 1
    /\ ~AnyFailed(last.calls)
    /\ Undecodable(last.args[1], last.args[2])

----------------------------------------------------------------------------
(* Execution context: the host's context fields at and around their bounds *)

\* An address of n bytes.
Pad(n) == [i \in 1 .. n |-> 97]

BoundaryAddresses ==
    {Pad(MIN_ADDRESS_LEN - 1), Pad(MIN_ADDRESS_LEN), Pad(MAX_ADDRESS_LEN), Pad(MAX_ADDRESS_LEN + 1)}
AddressInputs == BoundaryAddresses \cup {EmptyStr, Pad(1), Pad(MIN_ADDRESS_LEN + 1)}
BoundaryHeights == {TestHeight, MAX_BLOCK_HEIGHT, BigSucc(MAX_BLOCK_HEIGHT), U64_MAX}
BoundaryTimestamps == {Big(0), TestTimestamp, MAX_BLOCK_TIMESTAMP, BigSucc(MAX_BLOCK_TIMESTAMP)}
ValueInputs == {Big(0), TestValue, U64_MAX}
RequiredInputs == {Big(0), Big(500), TestValue, BigSucc(TestValue), Big(2000), U64_MAX}

set_sender ==
    \E a \in BoundaryAddresses \cup {EmptyStr} :
        /\ rt' = [rt EXCEPT !.sender = a]
        /\ last' = [NoCall EXCEPT !.op = "set_sender"]
        /\ UNCHANGED <<guardVars, storage, faulted, written>>

set_block_height ==
    \E h \in BoundaryHeights :
        /\ rt' = [rt EXCEPT !.block_height = h]
        /\ last' = [NoCall EXCEPT !.op = "set_block_height"]
        /\ UNCHANGED <<guardVars, storage, faulted, written>>

set_value ==
    \E v \in ValueInputs :
        /\ rt' = [rt EXCEPT !.value = v]
        /\ last' = [NoCall EXCEPT !.op = "set_value"]
        /\ UNCHANGED <<guardVars, storage, faulted, written>>

TryContext ==
    /\ last' = [NoCall EXCEPT !.op = "try_context", !.res = try_context(rt)]
    /\ UNCHANGED <<guardVars, storeVars>>

ValidateAddress ==
    \E a \in AddressInputs :
        /\ last' = [NoCall EXCEPT !.op = "validate_address", !.args = <<a>>,
                                  !.res = validate_address(a)]
        /\ UNCHANGED <<guardVars, storeVars>>

\* require_min_value on the Context that try_context handed out.
RequireMinValue ==
    \E required \in RequiredInputs :
        \E ctx \in {try_context(rt)} :
            /\ ctx.ok
            /\ last' = [NoCall EXCEPT !.op = "require_min_value", !.args = <<required>>,
                                      !.res = require_min_value(ctx.val, required)]
            /\ UNCHANGED <<guardVars, storeVars>>

NextCtx ==
    \/ prepare_mock_env
    \/ reset
    \/ set_sender
    \/ SetContractAddress(BoundaryAddresses)
    \/ set_block_height
    \/ SetBlockTimestamp(BoundaryTimestamps)
    \/ set_value
    \/ TryContext
    \/ ValidateAddress
    \/ RequireMinValue

SpecCtx == Init /\ [][NextCtx]_vars

BigGe(a, b) == a = b \/ BigGt(a, b)

\* The host's context fields are within the bounds of the specification.
WithinBounds(r) ==
    /\ Len(r.sender) >= 10 /\ Len(r.sender) <= 100
    /\ Len(r.contract_address) >= 10 /\ Len(r.contract_address) <= 100
    /\ BigGe(<<0, 1000000, 0>>, r.block_height)
    /\ r.block_timestamp # <<0, 0, 0>>
    /\ BigGe(<<0, 10000, 0>>, r.block_timestamp)

\* C18: try_context returns Ok exactly when sender and contract address have a length in
\* [10,100], the height is at most 10^15 and the timestamp is above 0 and at most 10^13;
\* the Context then holds the host's five fields; otherwise it fails InvalidArgument.
C18_TryContextValidates ==
    last.op = "try_context" =>
        last.res = IF WithinBounds(rt) THEN Ok(rt) ELSE Err("InvalidArgument")

\* A context acquired with every field at its upper bound.
C18_Witness ==
    /\ last.op = "try_context"
    /\ last.res = Ok(rt)
    /\ Len(rt.sender) = 100
    /\ Len(rt.contract_address) = 10
    /\ rt.block_height = MAX_BLOCK_HEIGHT
    /\ rt.block_timestamp = MAX_BLOCK_TIMESTAMP
    /\ rt.value = U64_MAX

\* C19: validate_address(a) returns Ok when the length of a is in [10,100] and fails
\* InvalidArgument when a is empty, shorter than 10 or longer than 100.
C19_ValidateAddressBounds ==
    last.op = "validate_address" =>
        last.res = IF Len(last.args[1]) >= 10 /\ Len(last.args[1]) <= 100
                   THEN Ok(Unit) ELSE Err("InvalidArgument")

\* An address of exactly 10 bytes is accepted.
C19_Witness ==
    /\ last.op = "validate_address"
    /\ Len(last.args[1]) = 10
    /\ last.res = Ok(Unit)

\* C20: on a Context with value v, require_min_value(r) returns Ok exactly when v >= r and
\* otherwise fails InsufficientBalance with required = r and available = v.
C20_RequireMinValue ==
    last.op = "require_min_value" =>
        last.res = IF BigGe(rt.value, last.args[1]) THEN Ok(Unit)
                   ELSE [ok |-> FALSE, err |-> "InsufficientBalance",
                         val |-> [required |-> last.args[1], available |-> rt.value]]

\* The scenario of the specification: value 1000, required 2000.
C20_Witness ==
    /\ last.op = "require_min_value"
    /\ rt.value = Big(1000)
    /\ last.args[1] = Big(2000)
    /\ last.res.err = "InsufficientBalance"
    /\ last.res.val = [required |-> Big(2000), available |-> Big(1000)]

----------------------------------------------------------------------------
(* Map<String, u64>: three instances, two of them on the same prefix *)

MapInstances == {"m1", "m2", "n"}
PrefixM == <<109>>                  \* "m"
PrefixN == <<109, 58>>              \* "m:"
PrefixOf(inst) == IF inst = "n" THEN PrefixN ELSE PrefixM
MapKeys == {Str(<<97>>), Str(<<58, 97>>)}      \* "a", ":a"
\* The values written through each instance.
MapValues(inst) == IF inst = "n" THEN {U64(1)} ELSE {U64(300)}

MapSet ==
    \E inst \in MapInstances, k \in MapKeys, F \in Failures(1) :
      \E v \in MapValues(inst) :
        \E r \in {Map_set(Host(storage), F, rt, PrefixOf(inst), k, v)} :
            /\ storage' = r.h.st
            /\ last' = [op |-> "map_set", args |-> <<inst, k, v>>, res |-> r.res,
                        calls |-> r.h.calls, pre |-> <<>>]
            /\ faulted' = (faulted \/ AnyFailed(r.h.calls))
            /\ UNCHANGED <<guardVars, rt, written>>

MapRemove ==
    \E inst \in MapInstances, k \in MapKeys, F \in Failures(1) :
        \E r \in {Map_remove(Host(storage), F, rt, PrefixOf(inst), k)} :
            /\ storage' = r.h.st
            /\ last' = [op |-> "map_remove", args |-> <<inst, k>>, res |-> r.res,
                        calls |-> r.h.calls, pre |-> <<>>]
            /\ faulted' = (faulted \/ AnyFailed(r.h.calls))
            /\ UNCHANGED <<guardVars, rt, written>>

MapGet ==
    \E inst \in MapInstances, k \in MapKeys, F \in Failures(1) :
        \E r \in {Map_get(Host(storage), F, rt, PrefixOf(inst), "u64", k)} :
            /\ storage' = r.h.st
            /\ last' = [op |-> "map_get", args |-> <<inst, k>>, res |-> r.res,
                        calls |-> r.h.calls, pre |-> <<>>]
            /\ faulted' = (faulted \/ AnyFailed(r.h.calls))
            /\ UNCHANGED <<guardVars, rt, written>>

MapContainsKey ==
    \E inst \in MapInstances, k \in MapKeys, F \in Failures(1) :
        \E r \in {Map_contains_key(Host(storage), F, rt, PrefixOf(inst), k)} :
            /\ storage' = r.h.st
            /\ last' = [op |-> "map_contains_key", args |-> <<inst, k>>, res |-> r.res,
                        calls |-> r.h.calls, pre |-> <<>>]
            /\ faulted' = (faulted \/ AnyFailed(r.h.calls))
            /\ UNCHANGED <<guardVars, rt, written>>

NextMap ==
    \/ prepare_mock_env
    \/ MapSet
    \/ MapRemove
    \/ MapGet
    \/ MapContainsKey

SpecMap == Init /\ [][NextMap]_vars

\* What get returns through instance inst for key k on table st, the host answering.
MapView(st, inst, k) == Map_get(Host(st), {}, rt, PrefixOf(inst), "u64", k).res

\* C21: two instances address the same physical key exactly when they have the same
\* prefix and the key is the same; after a successful set (remove) through one instance,
\* get through every instance of that prefix returns the value set (none) for that key,
\* and returns what it returned before for every other prefix or key.
C21_MapKeysSeparate ==
    [][(last'.op \in {"map_set", "map_remove"} /\ last'.res.ok) =>
        \A inst \in MapInstances, k \in MapKeys :
            LET same == PrefixOf(inst) = PrefixOf(last'.args[1]) /\ k = last'.args[2] IN
            /\ (Map_storage_key(PrefixOf(inst), k)
                    = Map_storage_key(PrefixOf(last'.args[1]), last'.args[2])) <=> same
            /\ MapView(storage', inst, k) =
                    IF ~same THEN MapView(storage, inst, k)
                    ELSE IF last'.op = "map_set" THEN Ok(Some(last'.args[3]))
                    ELSE Ok(None)]_vars

\* A value set through m1 and seen through m2, with the entry of the same key under the
\* other prefix holding another value and an entry under another key in the table.
C21_Witness ==
    /\ last.op = "map_set"
    /\ last.res.ok
    /\ last.args[1] = "m1"
    /\ MapView(storage, "m2", last.args[2]) = Ok(Some(U64(300)))
    /\ MapView(storage, "n", last.args[2]) = Ok(Some(U64(1)))
    /\ Cardinality(DOMAIN storage) >= 3

----------------------------------------------------------------------------
(* crypto: Ed25519 verification and its batched forms. Signatures are ideal: a signature
   is who made it and over which message. *)

MaxBatch == 2

PublicKeys == {"pkA", "malformed"}
Messages == {"msg-0", "msg-1"}
Signatures == {[by |-> "pkA", msg |-> "msg-0"], [by |-> "nobody", msg |-> "msg-1"]}
Targets == {"wasm32", "native"}

\* A panic or a fault ends the call; it is not a value the caller receives.
Panic == Err("panic")
Fault == Err("fault")

\* What a host call made through dangling addresses may produce.
UBOutcomes == {Ok(TRUE), Ok(FALSE), Err("InvalidSignature"), Fault}

SeqsUpTo(S, n) == UNION { [1 .. k -> S] : k \in 0 .. n }

verify_signature_slice(pubkey, message, signature) ==
    IF pubkey = "malformed" THEN Err("InvalidSignature")
    ELSE Ok(signature.by = pubkey /\ signature.msg = message)

verify_signature_internal(pubkey, message, signature) ==
    Only({ IF ~r.ok THEN -1 ELSE IF r.val THEN 1 ELSE 0
           : r \in {verify_signature_slice(pubkey, message, signature)} })

\* The addresses are passed as i32: exact on wasm32; on a target with wider addresses the
\* host reads through truncated addresses, and the outcome u is any of UBOutcomes.
call_verify_signature(target, u, pubkey, message, signature) ==
    IF target # "wasm32" THEN u
    ELSE Only({ IF c = 1 THEN Ok(TRUE) ELSE IF c = 0 THEN Ok(FALSE)
                ELSE Err("InvalidSignature")
                : c \in {verify_signature_internal(pubkey, message, signature)} })

verify_signature(target, u, pubkey, message, signature) ==
    call_verify_signature(target, u, pubkey, message, signature)

\* The loop of host::batch_verify_signatures from index i on.
RECURSIVE host_batch_loop(_, _, _, _, _)
host_batch_loop(pubkeys, messages, signatures, i, results) ==
    IF i > Len(pubkeys) THEN Ok(results)
    ELSE Only({ IF ~r.ok THEN r
                ELSE host_batch_loop(pubkeys, messages, signatures, i + 1,
                                     Append(results, r.val))
                : r \in {verify_signature_slice(pubkeys[i], messages[i], signatures[i])} })

host_batch_verify_signatures(pubkeys, messages, signatures) ==
    IF Len(pubkeys) # Len(messages) \/ Len(pubkeys) # Len(signatures)
    THEN Err("InvalidArgument")
    ELSE host_batch_loop(pubkeys, messages, signatures, 1, <<>>)

batch_verify_signatures_simd(pubkeys, messages, signatures) ==
    host_batch_verify_signatures(pubkeys, messages, signatures)

batch_verify_signatures(pubkeys, messages, signatures) ==
    IF Len(pubkeys) # Len(messages) \/ Len(pubkeys) # Len(signatures)
    THEN Err("InvalidArgument")
    ELSE batch_verify_signatures_simd(pubkeys, messages, signatures)

\* The loop of the fallback from index i on: indexing past the end of messages or
\* signatures panics. us[i] is the outcome of the i-th call where it is undefined.
RECURSIVE fallback_loop(_, _, _, _, _, _, _)
fallback_loop(target, us, pubkeys, messages, signatures, i, results) ==
    IF i > Len(pubkeys) THEN Ok(results)
    ELSE IF i > Len(messages) \/ i > Len(signatures) THEN Panic
    ELSE Only({ IF ~r.ok THEN r
                ELSE fallback_loop(target, us, pubkeys, messages, signatures, i + 1,
                                   Append(results, r.val))
                : r \in {verify_signature(target, us[i], pubkeys[i], messages[i],
                                          signatures[i])} })

batch_verify_signatures_fallback(target, us, pubkeys, messages, signatures) ==
    fallback_loop(target, us, pubkeys, messages, signatures, 1, <<>>)

\* Both paths on the same input: res is the result of batch_verify_signatures, pre that
\* of batch_verify_signatures_fallback. The functions keep no state: one call per run.
BatchVerify ==
    /\ last.op = "none"
    /\ \E target \in Targets, pubkeys \in SeqsUpTo(PublicKeys, MaxBatch),
          messages \in SeqsUpTo(Messages, MaxBatch),
          signatures \in SeqsUpTo(Signatures, MaxBatch) :
         \E us \in IF target = "wasm32" THEN {<<>>} ELSE [1 .. Len(pubkeys) -> UBOutcomes] :
           /\ last' = [op |-> "batch_verify",
                          args |-> <<target, pubkeys, messages, signatures>>,
                          res |-> batch_verify_signatures(pubkeys, messages, signatures),
                          calls |-> <<>>,
                          pre |-> <<batch_verify_signatures_fallback(target, us, pubkeys,
                                                                     messages, signatures)>>]
           /\ UNCHANGED <<guardVars, storeVars>>

NextCrypto ==
    \/ BatchVerify

SpecCrypto == Init /\ [][NextCrypto]_vars

\* C22: on every input the host-accelerated path and the scalar fallback produce the same
\* output, the same vector of booleans or the same error.
C22_BatchEqualsFallback ==
    last.op = "batch_verify" => last.res = last.pre[1]

----------------------------------------------------------------------------
(* safe_math on u64. A u64 is its 8 bytes, least significant first, and the primitive
   operations are carried out on the bytes. *)

BYTE == 2 ^ 8
U64_BYTES == 64 \div 8

\* The bytes of a number below 2^31, in width w.
BytesOf(n, w) == [i \in 1 .. w |-> IF i > 4 THEN 0 ELSE (n \div (BYTE ^ (i - 1))) % BYTE]

\* The number made of the lowest i bytes of x (i at most 3).
RECURSIVE NatOf(_, _)
NatOf(x, i) == IF i = 0 THEN 0 ELSE x[i] * (BYTE ^ (i - 1)) + NatOf(x, i - 1)

\* x has no bit set above byte i.
FitsIn(x, i) == \A j \in (i + 1) .. Len(x) : x[j] = 0

\* a >= b, for byte strings of one width.
BytesGe(a, b) == ~ \E i \in 1 .. Len(a) : a[i] < b[i] /\ \A j \in (i + 1) .. Len(a) : a[j] = b[j]

ZeroExtend(x, w) == [i \in 1 .. w |-> IF i <= Len(x) THEN x[i] ELSE 0]

\* x shifted left by k bytes, in the width of x.
ShiftBytes(x, k) == [i \in 1 .. Len(x) |-> IF i <= k THEN 0 ELSE x[i - k]]

\* x shifted left by one bit, bit coming in at the bottom, in the width of x.
ShiftBit(x, bit) ==
    [i \in 1 .. Len(x) |->
        (2 * x[i] + (IF i = 1 THEN bit ELSE x[i - 1] \div (BYTE \div 2))) % BYTE]

\* Ripple addition: st.acc holds the sum bytes produced so far, st.c the carry.
RECURSIVE AddLoop(_, _, _)
AddLoop(a, b, st) ==
    IF Len(st.acc) = Len(a) THEN st
    ELSE Only({ AddLoop(a, b, n)
                : n \in { [c |-> s \div BYTE, acc |-> Append(st.acc, s % BYTE)]
                          : s \in {a[Len(st.acc) + 1] + b[Len(st.acc) + 1] + st.c} } })

overflowing_add(a, b) == AddLoop(a, b, [c |-> 0, acc |-> <<>>])

\* Ripple subtraction: st.c is the borrow.
RECURSIVE SubLoop(_, _, _)
SubLoop(a, b, st) ==
    IF Len(st.acc) = Len(a) THEN st
    ELSE Only({ SubLoop(a, b, n)
                : n \in { [c |-> IF s < 0 THEN 1 ELSE 0,
                           acc |-> Append(st.acc, (s + BYTE) % BYTE)]
                          : s \in {a[Len(st.acc) + 1] - b[Len(st.acc) + 1] - st.c} } })

overflowing_sub(a, b) == SubLoop(a, b, [c |-> 0, acc |-> <<>>])

\* x times the byte d, in the width of x.
RECURSIVE ScaleLoop(_, _, _)
ScaleLoop(x, d, st) ==
    IF Len(st.acc) = Len(x) THEN st.acc
    ELSE Only({ ScaleLoop(x, d, n)
                : n \in { [c |-> s \div BYTE, acc |-> Append(st.acc, s % BYTE)]
                          : s \in {x[Len(st.acc) + 1] * d + st.c} } })

\* Schoolbook multiplication into twice the width: st.i bytes of b are done.
RECURSIVE MulLoop(_, _, _)
MulLoop(wide, b, st) ==
    IF st.i = Len(b) THEN st.acc
    ELSE Only({ MulLoop(wide, b, n)
                : n \in { [i |-> st.i + 1, acc |-> overflowing_add(st.acc, part).acc]
                          : part \in {ShiftBytes(ScaleLoop(wide, b[st.i + 1],
                                                           [c |-> 0, acc |-> <<>>]),
                                                 st.i)} } })

widening_mul(a, b) ==
    Only({ MulLoop(wide, b, [i |-> 0, acc |-> BytesOf(0, 2 * Len(a))])
           : wide \in {ZeroExtend(a, 2 * Len(a))} })

\* Restoring division, one bit of the byte d at a time from the top: st.k bits are left,
\* st.rem has one byte more than the divisor, st.qd holds the quotient bits of this byte.
RECURSIVE DivBits(_, _, _)
DivBits(d, wideB, st) ==
    IF st.k = 0 THEN st
    ELSE Only({ DivBits(d, wideB, n)
                : n \in { IF BytesGe(r, wideB)
                          THEN [k |-> st.k - 1, rem |-> overflowing_sub(r, wideB).acc,
                                qd |-> 2 * st.qd + 1]
                          ELSE [k |-> st.k - 1, rem |-> r, qd |-> 2 * st.qd]
                          : r \in {ShiftBit(st.rem, (d \div (2 ^ (st.k - 1))) % 2)} } })

\* The bytes of a from the top down: st.i bytes are left, st.q holds the quotient bytes
\* produced so far.
RECURSIVE DivLoop(_, _, _)
DivLoop(a, wideB, st) ==
    IF st.i = 0 THEN st
    ELSE Only({ DivLoop(a, wideB, n)
                : n \in { [i |-> st.i - 1, rem |-> g.rem, q |-> <<g.qd>> \o st.q]
                          : g \in {DivBits(a[st.i], wideB,
                                           [k |-> 8, rem |-> st.rem, qd |-> 0])} } })

\* a / b and a % b, for b # 0
div_rem(a, b) ==
    Only({ [q |-> st.q, rem |-> SubSeq(st.rem, 1, Len(a))]
           : st \in {DivLoop(a, ZeroExtend(b, Len(a) + 1),
                             [i |-> Len(a), rem |-> BytesOf(0, Len(a) + 1), q |-> <<>>])} })

checked_add(a, b) ==
    Only({ IF r.c = 1 THEN None ELSE Some(r.acc) : r \in {overflowing_add(a, b)} })

checked_sub(a, b) ==
    Only({ IF r.c = 1 THEN None ELSE Some(r.acc) : r \in {overflowing_sub(a, b)} })

checked_mul(a, b) ==
    Only({ IF \E i \in (Len(a) + 1) .. Len(p) : p[i] # 0 THEN None
           ELSE Some(SubSeq(p, 1, Len(a)))
           : p \in {widening_mul(a, b)} })

\* An add that returns the wrapped sum.
safe_math_add_Wrapping(a, b) == Ok(overflowing_add(a, b).acc)

safe_math_add(a, b) ==
    Only({ IF r = None THEN Err("Overflow") ELSE Ok(r[1]) : r \in {checked_add(a, b)} })

safe_math_sub(a, b) ==
    Only({ IF r = None THEN Err("Underflow") ELSE Ok(r[1]) : r \in {checked_sub(a, b)} })

safe_math_mul(a, b) ==
    Only({ IF r = None THEN Err("Overflow") ELSE Ok(r[1]) : r \in {checked_mul(a, b)} })

safe_math_div(a, b) ==
    IF b = BytesOf(0, Len(b)) THEN Err("InvalidArgument")
    ELSE Ok(div_rem(a, b).q)

U64Zero == BytesOf(0, U64_BYTES)
U64Max == [i \in 1 .. U64_BYTES |-> BYTE - 1]
\* 2^(8k)
U64Pow256(k) == [i \in 1 .. U64_BYTES |-> IF i = k + 1 THEN 1 ELSE 0]

U64Inputs ==
    { BytesOf(n, U64_BYTES) : n \in {0, 1, 2, 3, 7, 200, 1000} }
    \cup { U64Pow256(4), overflowing_sub(U64Pow256(4), BytesOf(1, U64_BYTES)).acc,
           [i \in 1 .. U64_BYTES |-> IF i = U64_BYTES THEN BYTE \div 2 ELSE 0],
           overflowing_sub(U64Max, BytesOf(1, U64_BYTES)).acc, U64Max }

\* The functions keep no state: one call per run.
SafeMathCall(name, a, b, res) ==
    /\ last.op = "none"
    /\ last' = [op |-> name, args |-> <<a, b>>, res |-> res, calls |-> <<>>, pre |-> <<>>]
    /\ UNCHANGED <<guardVars, storeVars>>

SafeAdd == \E a \in U64Inputs, b \in U64Inputs : SafeMathCall("add", a, b, safe_math_add(a, b))
SafeSub == \E a \in U64Inputs, b \in U64Inputs : SafeMathCall("sub", a, b, safe_math_sub(a, b))
SafeMul == \E a \in U64Inputs, b \in U64Inputs : SafeMathCall("mul", a, b, safe_math_mul(a, b))
SafeDiv == \E a \in U64Inputs, b \in U64Inputs : SafeMathCall("div", a, b, safe_math_div(a, b))

NextMath ==
    \/ SafeAdd
    \/ SafeSub
    \/ SafeMul
    \/ SafeDiv

SpecMath == Init /\ [][NextMath]_vars

\* add(a, b) = r exactly: r is not below a and r - b is a without borrow; for numbers
\* below 2^24 it is the sum of the numbers.
ExactSum(a, b, r) ==
    /\ BytesGe(r, a)
    /\ overflowing_sub(r, b) = [c |-> 0, acc |-> a]
    /\ (FitsIn(a, 3) /\ FitsIn(b, 3)) => r = BytesOf(NatOf(a, 3) + NatOf(b, 3), Len(a))

\* a * b = r exactly: b is 0 and r is 0, or r / b is a with remainder 0; for numbers
\* below 2^8 it is the product of the numbers.
ExactProduct(a, b, r) ==
    /\ IF b = BytesOf(0, Len(b)) THEN r = b
       ELSE div_rem(r, b) = [q |-> a, rem |-> BytesOf(0, Len(a))]
    /\ (FitsIn(a, 1) /\ FitsIn(b, 1)) => r = BytesOf(NatOf(a, 1) * NatOf(b, 1), Len(a))

\* q is the integer quotient of a by b # 0: q * b <= a < q * b + b.
ExactQuotient(a, b, q) ==
    /\ \E p \in {widening_mul(q, b)} :
          /\ FitsIn(p, Len(a))
          /\ \E d \in {overflowing_sub(a, SubSeq(p, 1, Len(a)))} :
                d.c = 0 /\ ~BytesGe(d.acc, b)
    /\ (FitsIn(a, 3) /\ FitsIn(b, 3)) => q = BytesOf(NatOf(a, 3) \div NatOf(b, 3), Len(a))

\* C23: add, sub and mul return the exact result when it fits in 64 bits and fail with
\* Overflow (add, mul) or Underflow (sub) exactly when it does not; div fails with
\* InvalidArgument exactly when the divisor is 0 and returns the integer quotient
\* otherwise.
C23_SafeMathExact ==
    LET a == last.args[1]
        b == last.args[2]
        r == last.res
    IN  /\ last.op = "add" =>
            IF BytesGe(overflowing_sub(U64Max, a).acc, b)
            THEN r.ok /\ ExactSum(a, b, r.val)
            ELSE r = Err("Overflow")
        /\ last.op = "sub" =>
            IF BytesGe(a, b)
            THEN r.ok /\ ExactSum(r.val, b, a)
            ELSE r = Err("Underflow")
        /\ last.op = "mul" =>
            IF a = U64Zero \/ BytesGe(div_rem(U64Max, a).q, b)
            THEN r.ok /\ ExactProduct(b, a, r.val)
            ELSE r = Err("Overflow")
        /\ last.op = "div" =>
            IF b = U64Zero THEN r = Err("InvalidArgument")
            ELSE r.ok /\ ExactQuotient(a, b, r.val)

\* add(u64::MAX, 1) has failed with Overflow.
C23_Witness ==
    /\ last.op = "add"
    /\ last.args = <<U64Max, BytesOf(1, U64_BYTES)>>
    /\ last.res = Err("Overflow")

----------------------------------------------------------------------------
(* The test double's reset *)

\* MockRuntime::default(): the state of the test double before any operation.
PristineRuntime ==
    [sender |-> EmptyStr, contract_address |-> EmptyStr,
     block_height |-> Big(0), block_timestamp |-> Big(0), value |-> Big(0)]

\* C24: after reset(), whatever preceded it, the table is empty and block height, block
\* timestamp, value, sender and contract address have their pristine values.
C24_ResetRestoresPristine ==
    last.op = "reset" => (storage = <<>> /\ rt = PristineRuntime)

----------------------------------------------------------------------------
(* The production backend (wasm32): read_storage and write_storage marshal to the host's
   state_read and state_write. A value is a run of len bytes, all equal to fill. The
   host's table is the variable storage. *)

MAX_VALUE_SIZE == 65536

Run(len, fill) == [len |-> len, fill |-> fill]

\* The sizes of the values written, around the maximum record size.
ProdSizes == {1, MAX_VALUE_SIZE - 1, MAX_VALUE_SIZE, MAX_VALUE_SIZE + 1}
ProdAccounts == {ContractA}
ProdKeys == {<<97>>, <<98>>}
\* What the host returns: 0 on success.
HostStatus == {0, 1}

\* state_read as the host answers it with the given status: on success it copies the
\* value to value_ptr and stores its length at value_len_ptr; it is given no capacity.
\* An entry that does not exist reads as the empty value.
state_read(st, account, key, status) ==
    IF status # 0 THEN [result |-> status, value_len |-> 0, copied |-> Run(0, 0)]
    ELSE IF <<account, key>> \in DOMAIN st
         THEN [result |-> 0, value_len |-> st[<<account, key>>].len,
               copied |-> st[<<account, key>>]]
         ELSE [result |-> 0, value_len |-> 0, copied |-> Run(0, 0)]

\* The buffer holds MAX_VALUE_SIZE bytes: what the host copied beyond it is not in the
\* vector, and truncate to a longer length leaves the vector as it is.
host_read_storage(st, account, key, status) ==
    Only({ IF h.result = 0
           THEN Ok(Run(IF h.value_len < MAX_VALUE_SIZE THEN h.value_len ELSE MAX_VALUE_SIZE,
                       h.copied.fill))
           ELSE Err("StorageReadFailed")
           : h \in {state_read(st, account, key, status)} })

\* res and the table after the call
host_write_storage(st, account, key, value, status) ==
    IF status = 0
    THEN [st |-> [k \in DOMAIN st \cup {<<account, key>>} |->
                    IF k = <<account, key>> THEN value ELSE st[k]],
          res |-> Ok(Unit)]
    ELSE [st |-> st, res |-> Err("StorageWriteFailed")]

ProdWrite ==
    \E account \in ProdAccounts, key \in ProdKeys, n \in ProdSizes, status \in HostStatus :
        \E r \in {host_write_storage(storage, account, key, Run(n, 7), status)} :
            /\ storage' = r.st
            /\ last' = [op |-> "host_write_storage", args |-> <<account, key, Run(n, 7)>>,
                        res |-> r.res, calls |-> <<status>>, pre |-> <<>>]
            /\ UNCHANGED <<guardVars, rt, faulted, written>>

\* pre is the stored value, if there is one
ProdRead ==
    \E account \in ProdAccounts, key \in ProdKeys, status \in HostStatus :
        /\ last' = [op |-> "host_read_storage", args |-> <<account, key>>,
                    res |-> host_read_storage(storage, account, key, status),
                    calls |-> <<status>>,
                    pre |-> IF <<account, key>> \in DOMAIN storage
                            THEN <<storage[<<account, key>>]>> ELSE <<>>]
        /\ UNCHANGED <<guardVars, storeVars>>

NextProd ==
    \/ ProdWrite
    \/ ProdRead

SpecProd == Init /\ [][NextProd]_vars

\* C25: a read of a stored value longer than the maximum record size fails; it never
\* returns Ok with a part of the value.
C25_OversizeReadFails ==
    (/\ last.op = "host_read_storage"
     /\ last.pre # <<>>
     /\ last.pre[1].len > MAX_VALUE_SIZE) => ~last.res.ok

----------------------------------------------------------------------------
(* A call that is aborted inside a guarded section *)

\* The running call traps: its frames go without unwinding, no guard is dropped, and the
\* process-wide flag stays as it is.
Abort ==
    /\ guards + Len(execStack) > 0
    /\ guards' = 0
    /\ execStack' = <<>>
    /\ last' = [NoCall EXCEPT !.op = "abort"]
    /\ UNCHANGED <<ENTERED_FLAG, threads, storeVars>>

NextWedge ==
    \/ Enter
    \/ DropGuard
    \/ Exit
    \/ ExecuteCall
    \/ ExecuteReturn
    \/ Abort
    \/ reset
    \/ prepare_mock_env
    \/ StorageHas

SpecWedge == Init /\ [][NextWedge]_vars

\* The flag is set and no guard is left to release it.
Wedged == ENTERED_FLAG /\ guards = 0 /\ execStack = <<>>

\* C26: once a guarded section was entered and its guard is gone unreleased, every step
\* other than ReentrancyGuard::exit() leaves the flag set, and every enter() (and execute)
\* fails with ReentrancyDetected.
C26_WedgedUntilExit ==
    [][Wedged =>
        \/ last'.op = "exit"
        \/ /\ Wedged'
           /\ last'.op \in {"enter", "execute", "execute_call"}
                => last'.res = Err("ReentrancyDetected")]_vars

\* An enter() has failed after an abort, the test double having been set up in between.
C26_Witness ==
    /\ Wedged
    /\ last.op = "enter"
    /\ last.res = Err("ReentrancyDetected")
    /\ rt.sender = SenderS

----------------------------------------------------------------------------
(* Threads calling ReentrancyGuard::enter() at once. A thread is "idle", "calling" (in
   enter(), before its compare_exchange), "holding" (returned a guard), "failed" (returned
   an error) or "released" (has dropped the guard it was returned). *)

\* All threads call enter() while the flag is false.
StartRace ==
    /\ ENTERED_FLAG = FALSE
    /\ \A t \in Threads : threads[t].pc \in {"idle", "failed", "released"}
    /\ threads' = [t \in Threads |-> [pc |-> "calling", res |-> Ok(Unit)]]
    /\ last' = [NoCall EXCEPT !.op = "start_race"]
    /\ UNCHANGED <<ENTERED_FLAG, guards, execStack, storeVars>>

\* Thread t alone calls enter(), whatever the flag is.
ThreadCall(t) ==
    /\ threads[t].pc \in {"idle", "failed", "released"}
    /\ threads' = [threads EXCEPT ![t] = [pc |-> "calling", res |-> Ok(Unit)]]
    /\ last' = [NoCall EXCEPT !.op = "thread_call", !.args = <<t>>]
    /\ UNCHANGED <<ENTERED_FLAG, guards, execStack, storeVars>>

\* A compare_exchange that acts on the flag as it was when the call began.
ThreadCAS_Torn(t) ==
    /\ threads[t].pc = "calling"
    /\ \E r \in {ReentrancyGuard_enter(FALSE)} :
        /\ ENTERED_FLAG' = r.flag
        /\ threads' = [threads EXCEPT ![t] = [pc |-> IF r.res.ok THEN "holding" ELSE "failed",
                                              res |-> r.res]]
        /\ last' = [NoCall EXCEPT !.op = "thread_enter", !.args = <<t>>, !.res = r.res]
    /\ UNCHANGED <<guards, execStack, storeVars>>

\* The compare_exchange of thread t, one atomic step, and the return of its enter().
ThreadCAS(t) ==
    /\ threads[t].pc = "calling"
    /\ \E r \in {ReentrancyGuard_enter(ENTERED_FLAG)} :
        /\ ENTERED_FLAG' = r.flag
        /\ threads' = [threads EXCEPT ![t] = [pc |-> IF r.res.ok THEN "holding" ELSE "failed",
                                              res |-> r.res]]
        /\ last' = [NoCall EXCEPT !.op = "thread_enter", !.args = <<t>>, !.res = r.res]
    /\ UNCHANGED <<guards, execStack, storeVars>>

\* Thread t drops the guard it holds.
ThreadDrop(t) ==
    /\ threads[t].pc = "holding"
    /\ ENTERED_FLAG' = ReentrancyGuardGuard_drop(ENTERED_FLAG)
    /\ threads' = [threads EXCEPT ![t].pc = "released"]
    /\ last' = [NoCall EXCEPT !.op = "thread_drop", !.args = <<t>>]
    /\ UNCHANGED <<guards, execStack, storeVars>>

NextRace ==
    \/ StartRace
    \/ \E t \in Threads : ThreadCall(t)
    \/ \E t \in Threads : ThreadCAS(t)
    \/ \E t \in Threads : ThreadDrop(t)
    \/ prepare_mock_env
    \/ reset

SpecRace == Init /\ [][NextRace]_vars

Holding == {t \in Threads : threads[t].pc = "holding"}

\* No thread has released a guard since the threads called.
NoneReleased == \A t \in Threads : threads[t].pc # "released"

\* C27: of the threads that called enter() at once with the flag false, never two hold a
\* guard; and as long as no guard was released, once all calls have returned exactly one
\* thread holds a guard and every other call has failed with ReentrancyDetected.
C27_ExactlyOneWins ==
    /\ Cardinality(Holding) <= 1
    /\ (NoneReleased /\ \A t \in Threads : threads[t].pc \in {"holding", "failed"}) =>
        /\ Cardinality(Holding) = 1
        /\ \A t \in Threads \ Holding : threads[t].res = Err("ReentrancyDetected")

\* Both calls have returned: thread 2 won and thread 1 failed.
C27_Witness ==
    /\ threads[1] = [pc |-> "failed", res |-> Err("ReentrancyDetected")]
    /\ threads[2].pc = "holding"
    /\ NoneReleased

----------------------------------------------------------------------------
(* The example contracts keep typed values in Storage and Map. Their tables are modelled
   by logical key: one field per Storage key or Map prefix, a Map being a function from
   its keys. A handler's host calls are numbered in the order it makes them, and F is the
   set of the numbers of the calls that fail. *)

GetOpt(f, k) == IF k \in DOMAIN f THEN Some(f[k]) ELSE None

\* Storage::get and Map::get as call n: a failed read is returned as none.
Rd(F, n, v) == IF n \in F THEN None ELSE v

\* A handler that returned early, and one that ran to its end.
Stop(st) == [st |-> st, ok |-> FALSE]
Done(st) == [st |-> st, ok |-> TRUE]

\* No host call fails, or exactly one of the n calls does.
OneFailure(n) == {{}} \cup { {i} : i \in 1 .. n }

----------------------------------------------------------------------------
(* multisig: the M-of-N wallet *)

MAX_OWNERS == 50
MAX_TIME_LOCK == 30 * 24 * 60 * 60
multisig_get_timestamp == 1700000000

EmptyWallet ==
    [config |-> None, is_owner |-> <<>>, owners_len |-> None, owners_item |-> <<>>,
     transactions |-> <<>>, approvals |-> <<>>, has_approved |-> <<>>]

\* The wallet's table in storage; the initial storage is the empty wallet.
Wallet(st) == IF DOMAIN st = {} THEN EmptyWallet ELSE st

\* The loop of initialize over the owners: i owners are done, 1 + 4 * i calls were made.
\* Per owner: is_owner.set, then owners_vec.push (length read, item write, length write).
RECURSIVE multisig_initialize_owners(_, _, _, _)
multisig_initialize_owners(st, F, owners, i) ==
    IF i = Len(owners) THEN Done(st)
    ELSE IF (4 * i + 2) \in F THEN Stop(st)
    ELSE LET st1 == [st EXCEPT !.is_owner = Put(@, owners[i + 1], TRUE)]
             len == IF Rd(F, 4 * i + 3, st.owners_len) = None THEN 0 ELSE st.owners_len[1]
         IN  IF (4 * i + 4) \in F THEN Stop(st1)
             ELSE IF (4 * i + 5) \in F
                  THEN Stop([st1 EXCEPT !.owners_item = Put(@, len, owners[i + 1])])
                  ELSE multisig_initialize_owners(
                           [st1 EXCEPT !.owners_item = Put(@, len, owners[i + 1]),
                                       !.owners_len = Some(len + 1)],
                           F, owners, i + 1)

multisig_initialize(st, F, owners, threshold) ==
    IF \/ Len(owners) = 0
       \/ threshold = 0
       \/ threshold > Len(owners)
       \/ Len(owners) > MAX_OWNERS
       \/ \E i, j \in 1 .. Len(owners) : i # j /\ owners[i] = owners[j]
    THEN Stop(st)
    ELSE IF 1 \in F THEN Stop(st)
    ELSE multisig_initialize_owners(
             [st EXCEPT !.config = Some([threshold |-> threshold, transaction_count |-> 0,
                                         max_time_lock |-> MAX_TIME_LOCK])],
             F, owners, 0)

\* is_owner_check() as call n
multisig_is_owner_check(st, F, n, caller) ==
    Rd(F, n, GetOpt(st.is_owner, caller)) = Some(TRUE)

\* value and data are stored and never looked at: they are left out.
multisig_submit_transaction(st, F, caller, to, description) ==
    IF ~multisig_is_owner_check(st, F, 1, caller) THEN Stop(st)
    ELSE IF to = EmptyStr \/ description = EmptyStr THEN Stop(st)
    ELSE IF Rd(F, 2, st.config) = None THEN Stop(st)
    ELSE LET config == st.config[1]
             tx_id == config.transaction_count
             transaction == [to |-> to, proposer |-> caller,
                             timestamp |-> multisig_get_timestamp,
                             executed |-> FALSE, cancelled |-> FALSE, time_lock |-> None]
             st1 == [st EXCEPT !.transactions = Put(@, tx_id, transaction)]
             st2 == [st1 EXCEPT !.approvals = Put(@, tx_id, <<caller>>)]
             st3 == [st2 EXCEPT !.has_approved = Put(@, <<tx_id, caller>>, TRUE)]
         IN  IF 3 \in F THEN Stop(st)
             ELSE IF 4 \in F THEN Stop(st1)
             ELSE IF 5 \in F THEN Stop(st2)
             ELSE IF 6 \in F THEN Stop(st3)
             ELSE Done([st3 EXCEPT !.config =
                            Some([config EXCEPT !.transaction_count = @ + 1])])

multisig_approve_transaction(st, F, caller, tx_id) ==
    IF ~multisig_is_owner_check(st, F, 1, caller) THEN Stop(st)
    ELSE IF Rd(F, 2, GetOpt(st.transactions, tx_id)) = None THEN Stop(st)
    ELSE IF st.transactions[tx_id].executed \/ st.transactions[tx_id].cancelled THEN Stop(st)
    ELSE IF Rd(F, 3, GetOpt(st.has_approved, <<tx_id, caller>>)) = Some(TRUE) THEN Stop(st)
    ELSE IF Rd(F, 4, GetOpt(st.approvals, tx_id)) = None THEN Stop(st)
    ELSE LET st1 == [st EXCEPT !.approvals = Put(@, tx_id, Append(st.approvals[tx_id], caller))]
             st2 == [st1 EXCEPT !.has_approved = Put(@, <<tx_id, caller>>, TRUE)]
         IN  IF 5 \in F THEN Stop(st)
             ELSE IF 6 \in F THEN Stop(st1)
             ELSE IF 7 \in F THEN Stop(st2)
             ELSE Done(st2)

\* The list without its first entry equal to x.
RemoveFirst(list, x) ==
    LET pos == CHOOSE i \in 1 .. Len(list) :
                   list[i] = x /\ \A j \in 1 .. (i - 1) : list[j] # x
    IN  SubSeq(list, 1, pos - 1) \o SubSeq(list, pos + 1, Len(list))

multisig_revoke_approval(st, F, caller, tx_id) ==
    IF ~multisig_is_owner_check(st, F, 1, caller) THEN Stop(st)
    ELSE IF Rd(F, 2, GetOpt(st.transactions, tx_id)) = None THEN Stop(st)
    ELSE IF st.transactions[tx_id].executed THEN Stop(st)
    ELSE IF Rd(F, 3, GetOpt(st.approvals, tx_id)) = None THEN Stop(st)
    ELSE IF ~ \E i \in 1 .. Len(st.approvals[tx_id]) : st.approvals[tx_id][i] = caller
         THEN Stop(st)
    ELSE LET st1 == [st EXCEPT !.approvals =
                         Put(@, tx_id, RemoveFirst(st.approvals[tx_id], caller))]
             st2 == [st1 EXCEPT !.has_approved = Put(@, <<tx_id, caller>>, FALSE)]
         IN  IF 4 \in F THEN Stop(st)
             ELSE IF 5 \in F THEN Stop(st1)
             ELSE IF 6 \in F THEN Stop(st2)
             ELSE Done(st2)

\* can_execute_transaction, its three reads being calls n, n + 1 and n + 2
multisig_can_execute_transaction(st, F, n, tx_id) ==
    IF Rd(F, n, st.config) = None THEN FALSE
    ELSE IF Rd(F, n + 1, GetOpt(st.approvals, tx_id)) = None THEN FALSE
    ELSE IF Len(st.approvals[tx_id]) < st.config[1].threshold THEN FALSE
    ELSE IF Rd(F, n + 2, GetOpt(st.transactions, tx_id)) = None THEN FALSE
    ELSE IF st.transactions[tx_id].executed \/ st.transactions[tx_id].cancelled THEN FALSE
    ELSE IF /\ st.transactions[tx_id].time_lock # None
            /\ multisig_get_timestamp < st.transactions[tx_id].time_lock[1]
         THEN FALSE
    ELSE TRUE

multisig_execute_transaction(st, F, tx_id) ==
    IF ~multisig_can_execute_transaction(st, F, 1, tx_id) THEN Stop(st)
    ELSE IF Rd(F, 4, GetOpt(st.transactions, tx_id)) = None THEN Stop(st)
    ELSE IF 5 \in F THEN Stop(st)
    ELSE Done([st EXCEPT !.transactions[tx_id].executed = TRUE])

multisig_cancel_transaction(st, F, caller, tx_id) ==
    IF ~multisig_is_owner_check(st, F, 1, caller) THEN Stop(st)
    ELSE IF Rd(F, 2, GetOpt(st.transactions, tx_id)) = None THEN Stop(st)
    ELSE IF st.transactions[tx_id].executed \/ st.transactions[tx_id].cancelled THEN Stop(st)
    ELSE IF 4 \in F THEN Stop(st)
    ELSE Done([st EXCEPT !.transactions[tx_id].cancelled = TRUE])

multisig_set_time_lock(st, F, caller, tx_id, delay_seconds) ==
    IF ~multisig_is_owner_check(st, F, 1, caller) THEN Stop(st)
    ELSE IF Rd(F, 2, st.config) = None THEN Stop(st)
    ELSE IF delay_seconds > st.config[1].max_time_lock THEN Stop(st)
    ELSE IF Rd(F, 3, GetOpt(st.transactions, tx_id)) = None THEN Stop(st)
    ELSE IF st.transactions[tx_id].executed \/ st.transactions[tx_id].cancelled THEN Stop(st)
    ELSE IF 4 \in F THEN Stop(st)
    ELSE Done([st EXCEPT !.transactions[tx_id].time_lock =
                   Some(multisig_get_timestamp + delay_seconds)])

MsOwners == {"o1", "o2"}
MsCallers == MsOwners \cup {"x"}
TxIds == 0 .. (MaxTx - 1)
MsDelays == {0, 60, MAX_TIME_LOCK + 1}

\* A call of the wallet: its name, whether it ran to its end, and the table it leaves.
MsCall(name, args, r) ==
    /\ storage' = r.st
    /\ last' = [NoCall EXCEPT !.op = name, !.args = args,
                              !.res = IF r.ok THEN Ok(Unit) ELSE Err("returned early")]
    /\ UNCHANGED <<guardVars, rt, faulted, written>>

\* initialize is called when the wallet is deployed.
MsInitialize ==
    /\ Wallet(storage).config = None
    /\ \E owners \in {<<"o1", "o2">>, <<"o1", "o1">>}, threshold \in {0, 2, 3},
          F \in OneFailure(9) :
         MsCall("initialize", <<>>,
                multisig_initialize(Wallet(storage), F, owners, threshold))

MsSubmit ==
    /\ Wallet(storage).config # None => Wallet(storage).config[1].transaction_count < MaxTx
    /\ \E caller \in MsCallers, to \in {EmptyStr, <<114>>}, F \in OneFailure(6) :
         MsCall("submit_transaction", <<caller>>,
                multisig_submit_transaction(Wallet(storage), F, caller, to, <<100>>))

MsApprove ==
    \E caller \in MsCallers, tx_id \in TxIds, F \in OneFailure(7) :
        /\ tx_id \in DOMAIN Wallet(storage).approvals
              => Len(Wallet(storage).approvals[tx_id]) < MaxApprovals
        /\ MsCall("approve_transaction", <<caller, tx_id>>,
                  multisig_approve_transaction(Wallet(storage), F, caller, tx_id))

MsRevoke ==
    \E caller \in MsCallers, tx_id \in TxIds, F \in OneFailure(6) :
        MsCall("revoke_approval", <<caller, tx_id>>,
               multisig_revoke_approval(Wallet(storage), F, caller, tx_id))

MsExecute ==
    \E caller \in MsCallers, tx_id \in TxIds, F \in OneFailure(5) :
        MsCall("execute_transaction", <<caller, tx_id>>,
               multisig_execute_transaction(Wallet(storage), F, tx_id))

MsCancel ==
    \E caller \in MsCallers, tx_id \in TxIds, F \in OneFailure(4) :
        MsCall("cancel_transaction", <<caller, tx_id>>,
               multisig_cancel_transaction(Wallet(storage), F, caller, tx_id))

MsSetTimeLock ==
    \E caller \in MsCallers, tx_id \in TxIds, delay_seconds \in MsDelays,
       F \in OneFailure(4) :
        MsCall("set_time_lock", <<caller, tx_id>>,
               multisig_set_time_lock(Wallet(storage), F, caller, tx_id, delay_seconds))

NextMultisig ==
    \/ MsInitialize
    \/ MsSubmit
    \/ MsApprove
    \/ MsRevoke
    \/ MsExecute
    \/ MsCancel
    \/ MsSetTimeLock

SpecMultisig == Init /\ [][NextMultisig]_vars

MsExecuted(st, tx_id) ==
    tx_id \in DOMAIN Wallet(st).transactions /\ Wallet(st).transactions[tx_id].executed

\* The owners on the approval list of the transaction.
ApprovingOwners(st, tx_id) ==
    { o \in DOMAIN Wallet(st).is_owner :
        /\ Wallet(st).is_owner[o]
        /\ tx_id \in DOMAIN Wallet(st).approvals
        /\ \E i \in 1 .. Len(Wallet(st).approvals[tx_id]) :
              Wallet(st).approvals[tx_id][i] = o }

\* C28: a step marks a transaction executed only if it is an execute_transaction and, at
\* that moment, the approval list holds at least threshold distinct owners and the
\* transaction is not cancelled and not time-locked.
C28_ExecuteNeedsThreshold ==
    [][\A tx_id \in TxIds :
        (~MsExecuted(storage, tx_id) /\ MsExecuted(storage', tx_id)) =>
            /\ last'.op = "execute_transaction"
            /\ Wallet(storage).config # None
            /\ Cardinality(ApprovingOwners(storage, tx_id))
                  >= Wallet(storage).config[1].threshold
            /\ tx_id \in DOMAIN Wallet(storage).transactions
            /\ ~Wallet(storage).transactions[tx_id].cancelled
            /\ \/ Wallet(storage).transactions[tx_id].time_lock = None
               \/ multisig_get_timestamp >= Wallet(storage).transactions[tx_id].time_lock[1]
    ]_vars

----------------------------------------------------------------------------
(* timelock: delayed execution of operations *)

MIN_DELAY == 172800
SCHEDULE_DELAY == 172800
MAX_DELAY == 30 * 24 * 60 * 60
timelock_get_timestamp == 1700000000

EmptyTimelock == [config |-> None, roles |-> <<>>, role_counts |-> <<>>, operations |-> <<>>]

\* The timelock's table in storage; the initial storage is the empty timelock.
Timelock(st) == IF DOMAIN st = {} THEN EmptyTimelock ELSE st

\* The parameters of an operation.
OpParams(target, value, data, predecessor, salt) ==
    [target |-> target, value |-> value, data |-> data,
     predecessor |-> predecessor, salt |-> salt]

\* The hasher is taken to be free of collisions on the operations of the model: the id
\* is the sequence of the five fields fed to it, a missing predecessor being 32 zeros.
hash_operation(p) ==
    <<p.target, p.value, p.data,
      IF p.predecessor = None THEN Run(32, 0) ELSE p.predecessor[1], p.salt>>

\* The operation that schedule() schedules.
ScheduledParams == OpParams("target_contract_address", 0, Run(4, 0), None, Run(32, 1))

\* The writes of initialize after the config: calls n .. 6 write the two roles and the
\* four role counts, in this order.
RECURSIVE timelock_initialize_writes(_, _, _, _)
timelock_initialize_writes(st, F, deployer, n) ==
    IF n > 7 THEN Done(st)
    ELSE IF n \in F THEN Stop(st)
    ELSE timelock_initialize_writes(
             CASE n = 2 -> [st EXCEPT !.roles = Put(@, <<"PROPOSER_ROLE", deployer>>, TRUE)]
               [] n = 3 -> [st EXCEPT !.roles = Put(@, <<"ADMIN_ROLE", deployer>>, TRUE)]
               [] n = 4 -> [st EXCEPT !.role_counts = Put(@, "PROPOSER_ROLE", 1)]
               [] n = 5 -> [st EXCEPT !.role_counts = Put(@, "EXECUTOR_ROLE", 0)]
               [] n = 6 -> [st EXCEPT !.role_counts = Put(@, "ADMIN_ROLE", 1)]
               [] n = 7 -> [st EXCEPT !.role_counts = Put(@, "CANCELLER_ROLE", 0)],
             F, deployer, n + 1)

timelock_initialize(st, F, deployer) ==
    IF MIN_DELAY = 0 \/ MIN_DELAY > MAX_DELAY THEN Stop(st)
    ELSE IF 1 \in F THEN Stop(st)
    ELSE timelock_initialize_writes(
             [st EXCEPT !.config = Some([min_delay |-> MIN_DELAY, max_delay |-> MAX_DELAY,
                                         operation_counter |-> 0, admin |-> deployer])],
             F, deployer, 2)

\* has_role() as call n
timelock_has_role(st, F, n, role, account) ==
    Rd(F, n, GetOpt(st.roles, <<role, account>>)) = Some(TRUE)

\* is_admin() as call n
timelock_is_admin(st, F, n, caller) ==
    Rd(F, n, st.config) # None /\ caller = st.config[1].admin

timelock_schedule(st, F, caller) ==
    IF ~timelock_has_role(st, F, 1, "PROPOSER_ROLE", caller) THEN Stop(st)
    ELSE IF Rd(F, 2, st.config) = None THEN Stop(st)
    ELSE IF SCHEDULE_DELAY < st.config[1].min_delay THEN Stop(st)
    ELSE IF SCHEDULE_DELAY > st.config[1].max_delay THEN Stop(st)
    ELSE IF Rd(F, 3, GetOpt(st.operations, hash_operation(ScheduledParams))) # None
         THEN Stop(st)
    ELSE LET operation == [predecessor |-> ScheduledParams.predecessor,
                           ready_timestamp |-> timelock_get_timestamp + SCHEDULE_DELAY,
                           executed |-> FALSE, cancelled |-> FALSE]
             st1 == [st EXCEPT !.operations =
                         Put(@, hash_operation(ScheduledParams), operation)]
         IN  IF 4 \in F THEN Stop(st)
             ELSE IF 5 \in F THEN Stop(st1)
             ELSE Done([st1 EXCEPT !.config = Some([st.config[1] EXCEPT
                                                       !.operation_counter = @ + 1])])

\* The calls of cancel's permission check: is_admin() is asked only if the caller is no
\* canceller.
CancelChecks(st, F, caller) ==
    IF timelock_has_role(st, F, 1, "CANCELLER_ROLE", caller) THEN 1 ELSE 2

timelock_cancel(st, F, caller, id) ==
    IF /\ ~timelock_has_role(st, F, 1, "CANCELLER_ROLE", caller)
       /\ ~timelock_is_admin(st, F, 2, caller)
    THEN Stop(st)
    ELSE IF Rd(F, CancelChecks(st, F, caller) + 1, GetOpt(st.operations, id)) = None
         THEN Stop(st)
    ELSE IF st.operations[id].executed THEN Stop(st)
    ELSE IF st.operations[id].cancelled THEN Stop(st)
    ELSE IF (CancelChecks(st, F, caller) + 2) \in F THEN Stop(st)
    ELSE Done([st EXCEPT !.operations[id].cancelled = TRUE])

\* The calls of execute's permission check: has_role() is asked only if there are
\* executors.
ExecuteChecks(st) == IF st.role_counts["EXECUTOR_ROLE"] > 0 THEN 2 ELSE 1

\* An execute that looks neither at the cancelled flag nor at the time.
timelock_execute_Unchecked(st, F, caller, p) ==
    IF Rd(F, 1, GetOpt(st.role_counts, "EXECUTOR_ROLE")) = None THEN Stop(st)
    ELSE IF Rd(F, ExecuteChecks(st) + 1, GetOpt(st.operations, hash_operation(p))) = None
         THEN Stop(st)
    ELSE IF st.operations[hash_operation(p)].executed THEN Stop(st)
    ELSE Done([st EXCEPT !.operations[hash_operation(p)].executed = TRUE])

timelock_execute(st, F, caller, p) ==
    IF Rd(F, 1, GetOpt(st.role_counts, "EXECUTOR_ROLE")) = None THEN Stop(st)
    ELSE IF /\ st.role_counts["EXECUTOR_ROLE"] > 0
            /\ ~timelock_has_role(st, F, 2, "EXECUTOR_ROLE", caller)
         THEN Stop(st)
    ELSE IF Rd(F, ExecuteChecks(st) + 1, GetOpt(st.operations, hash_operation(p))) = None
         THEN Stop(st)
    ELSE IF st.operations[hash_operation(p)].executed THEN Stop(st)
    ELSE IF st.operations[hash_operation(p)].cancelled THEN Stop(st)
    ELSE IF timelock_get_timestamp < st.operations[hash_operation(p)].ready_timestamp
         THEN Stop(st)
    ELSE IF /\ st.operations[hash_operation(p)].predecessor # None
            /\ \/ Rd(F, ExecuteChecks(st) + 2,
                     GetOpt(st.operations, st.operations[hash_operation(p)].predecessor[1]))
                    = None
               \/ ~st.operations[st.operations[hash_operation(p)].predecessor[1]].executed
         THEN Stop(st)
    ELSE IF (ExecuteChecks(st) + (IF st.operations[hash_operation(p)].predecessor # None
                                  THEN 3 ELSE 2)) \in F
         THEN Stop(st)
    ELSE Done([st EXCEPT !.operations[hash_operation(p)].executed = TRUE])

\* get_operation_state(): 0 unset, 1 pending, 2 ready, 3 executed, 4 cancelled
timelock_get_operation_state(st, F, id) ==
    IF Rd(F, 1, GetOpt(st.operations, id)) = None THEN 0
    ELSE IF st.operations[id].executed THEN 3
    ELSE IF st.operations[id].cancelled THEN 4
    ELSE IF timelock_get_timestamp >= st.operations[id].ready_timestamp THEN 2
    ELSE 1

timelock_update_delay(st, F, caller, new_delay) ==
    IF ~timelock_is_admin(st, F, 1, caller) THEN Stop(st)
    ELSE IF new_delay = 0 \/ new_delay > MAX_DELAY THEN Stop(st)
    ELSE IF Rd(F, 2, st.config) = None THEN Stop(st)
    ELSE IF 3 \in F THEN Stop(st)
    ELSE Done([st EXCEPT !.config = Some([st.config[1] EXCEPT !.min_delay = new_delay])])

\* role_counts.get(role).ok().flatten().unwrap_or(d) as call n
RoleCountOr(st, F, n, role, d) ==
    IF Rd(F, n, GetOpt(st.role_counts, role)) = None THEN d ELSE st.role_counts[role]

timelock_grant_role(st, F, caller, role, account) ==
    IF ~timelock_is_admin(st, F, 1, caller) THEN Stop(st)
    ELSE IF timelock_has_role(st, F, 2, role, account) THEN Stop(st)
    ELSE IF 3 \in F THEN Stop(st)
    ELSE IF 5 \in F THEN Stop([st EXCEPT !.roles = Put(@, <<role, account>>, TRUE)])
    ELSE Done([st EXCEPT !.roles = Put(@, <<role, account>>, TRUE),
                         !.role_counts = Put(@, role, RoleCountOr(st, F, 4, role, 0) + 1)])

\* saturating_sub(1)
SaturatingPred(n) == IF n = 0 THEN 0 ELSE n - 1

\* The calls of revoke_role before its writes: the admin count is read only for ADMIN_ROLE.
RevokeChecks(role) == IF role = "ADMIN_ROLE" THEN 3 ELSE 2

timelock_revoke_role(st, F, caller, role, account) ==
    IF ~timelock_is_admin(st, F, 1, caller) THEN Stop(st)
    ELSE IF ~timelock_has_role(st, F, 2, role, account) THEN Stop(st)
    ELSE IF role = "ADMIN_ROLE" /\ RoleCountOr(st, F, 3, "ADMIN_ROLE", 0) <= 1 THEN Stop(st)
    ELSE IF (RevokeChecks(role) + 1) \in F THEN Stop(st)
    ELSE IF (RevokeChecks(role) + 3) \in F
         THEN Stop([st EXCEPT !.roles = Put(@, <<role, account>>, FALSE)])
    ELSE Done([st EXCEPT !.roles = Put(@, <<role, account>>, FALSE),
                         !.role_counts =
                             Put(@, role,
                                 SaturatingPred(RoleCountOr(st, F, RevokeChecks(role) + 2,
                                                            role, 1)))])

TlAccounts == {"d", "x"}
\* initialize with no failure, with the config write failing, with the write of the
\* executor count failing.
TlInitFailures == {{}, {1}, {5}}
TlGrantable == {"EXECUTOR_ROLE", "CANCELLER_ROLE"}
TlDelays == {0, SCHEDULE_DELAY + 1}
TlParams == {ScheduledParams, [ScheduledParams EXCEPT !.salt = Run(32, 2)]}
OpIds == { hash_operation(p) : p \in TlParams }

\* A call of the timelock: its name, its arguments, whether it ran to its end, and the
\* table it leaves.
TlCall(name, args, r) ==
    /\ storage' = r.st
    /\ last' = [NoCall EXCEPT !.op = name, !.args = args,
                              !.res = IF r.ok THEN Ok(Unit) ELSE Err("returned early")]
    /\ UNCHANGED <<guardVars, rt, faulted, written>>

\* initialize is called when the timelock is deployed.
TlInitialize ==
    /\ Timelock(storage).config = None
    /\ \E F \in TlInitFailures :
         TlCall("initialize", <<>>, timelock_initialize(Timelock(storage), F, "d"))

TlSchedule ==
    /\ Timelock(storage).config # None
          => Timelock(storage).config[1].operation_counter < MaxOps
    /\ \E caller \in TlAccounts, F \in OneFailure(5) :
         TlCall("schedule", <<>>, timelock_schedule(Timelock(storage), F, caller))

TlCancel ==
    \E caller \in TlAccounts, id \in OpIds, F \in OneFailure(4) :
        TlCall("cancel", <<>>, timelock_cancel(Timelock(storage), F, caller, id))

TlExecute ==
    \E caller \in TlAccounts, p \in TlParams, F \in OneFailure(3) :
        TlCall("execute", <<p>>,
               timelock_execute(Timelock(storage), F, caller, p))

TlGetOperationState ==
    \E id \in OpIds, F \in OneFailure(1) :
        /\ last' = [NoCall EXCEPT !.op = "get_operation_state",
                       !.res = Ok(timelock_get_operation_state(Timelock(storage), F, id))]
        /\ UNCHANGED <<guardVars, storage, rt, faulted, written>>

TlUpdateDelay ==
    \E caller \in TlAccounts, new_delay \in TlDelays, F \in OneFailure(3) :
        TlCall("update_delay", <<>>,
               timelock_update_delay(Timelock(storage), F, caller, new_delay))

TlGrantRole ==
    \E caller \in TlAccounts, role \in TlGrantable, F \in OneFailure(5) :
        /\ role \in DOMAIN Timelock(storage).role_counts
              => Timelock(storage).role_counts[role] < MaxRoleCount
        /\ TlCall("grant_role", <<>>,
                  timelock_grant_role(Timelock(storage), F, caller, role, "x"))

TlRevokeRole ==
    \E caller \in TlAccounts, role \in TlGrantable, F \in OneFailure(5) :
        TlCall("revoke_role", <<>>,
               timelock_revoke_role(Timelock(storage), F, caller, role, "x"))

\* The block timestamp of the runtime stands at the scheduling time or at the ready time.
TlSetBlockTimestamp ==
    SetBlockTimestamp({Big(timelock_get_timestamp),
                       Big(timelock_get_timestamp + SCHEDULE_DELAY)})

NextTimelock ==
    \/ TlInitialize
    \/ TlSchedule
    \/ TlCancel
    \/ TlExecute
    \/ TlGetOperationState
    \/ TlUpdateDelay
    \/ TlGrantRole
    \/ TlRevokeRole
    \/ TlSetBlockTimestamp

SpecTimelock == Init /\ [][NextTimelock]_vars

TlStored(st, id) == id \in DOMAIN Timelock(st).operations
TlExecuted(st, id) == TlStored(st, id) /\ Timelock(st).operations[id].executed
TlCancelled(st, id) == TlStored(st, id) /\ Timelock(st).operations[id].cancelled

DelayExpired(id) ==
    /\ TlStored(storage, id)
    /\ ~TlCancelled(storage, id)
    /\ ~TlExecuted(storage, id)
    /\ BigGe(rt.block_timestamp, Big(Timelock(storage).operations[id].ready_timestamp))

\* The caller passes execute's permission check.
MayExecute(st, caller) ==
    /\ "EXECUTOR_ROLE" \in DOMAIN st.role_counts
    /\ \/ st.role_counts["EXECUTOR_ROLE"] = 0
       \/ GetOpt(st.roles, <<"EXECUTOR_ROLE", caller>>) = Some(TRUE)

\* C30: a scheduled operation that is not cancelled is Ready once its delay has expired
\* (get_operation_state returns 2), and an execute with its parameters, by a caller allowed
\* to execute and with no host failure, then leaves it Executed (state 3).
C30_ReadyThenExecuted ==
    \A p \in TlParams :
        DelayExpired(hash_operation(p)) =>
            /\ timelock_get_operation_state(Timelock(storage), {}, hash_operation(p)) = 2
            /\ \A caller \in TlAccounts :
                  MayExecute(Timelock(storage), caller) =>
                      timelock_get_operation_state(
                          timelock_execute(Timelock(storage), {}, caller, p).st,
                          {}, hash_operation(p)) = 3

----------------------------------------------------------------------------
(* Vector as a sequence. A Vector holds its prefix and nothing else: every instance with
   the prefix is the same Vector_* operators on the same table. *)

\* The sequence that table st holds for the current contract address.
AbsSeq(st) == [i \in 1 .. LenIn(st) |-> from_bytes("u64", ItemIn(st, i - 1)).val]

----------------------------------------------------------------------------
(* ReentrancyGuard: nested entries *)

\* C32: an enter() or execute(f) called while a guarded section is active fails with
\* ReentrancyDetected, f is not run, and the flag is true after the call as before it;
\* the guards held and the running closures are those before the call.
C32_NestedEntryRejected ==
    [][(ActiveSections > 0 /\ last'.op \in {"enter", "execute_call", "execute"}
        /\ execStack' # SubSeq(execStack, 1, Len(execStack) - 1)) =>
        /\ last'.res = Err("ReentrancyDetected")
        /\ last'.op = "execute" => last'.args = <<"not run">>
        /\ ENTERED_FLAG /\ ENTERED_FLAG'
        /\ guards' = guards
        /\ execStack' = execStack]_vars

----------------------------------------------------------------------------
(* The context check in front of every storage operation: Storage, Map, Vector and
   AccessControl called in turn, with and without a valid execution context. *)

\* What a call returned and did: its name, its result, its host calls, the table it left.
Outcome(op, x) == [op |-> op, res |-> x.res, calls |-> x.h.calls, st |-> x.h.st]

\* The same for a call that returns a plain boolean.
BoolOutcome(op, x) == [op |-> op, res |-> Ok(<<x.res>>), calls |-> x.h.calls, st |-> x.h.st]

\* The same for a call that returns Ok(boolean).
OkBoolOutcome(op, x) ==
    [op |-> op, res |-> IF x.res.ok THEN Ok(<<x.res.val>>) ELSE x.res,
     calls |-> x.h.calls, st |-> x.h.st]

GateKey == Str(<<97>>)
GatePrefix == <<109>>

\* The calls that answer with a plain boolean, or a boolean where the others return the
\* error: Storage::has, Map::contains_key, AccessControl::has_role.
GateQueries == {"Storage::has", "Map::contains_key", "AccessControl::has_role"}

GateOps ==
    GateQueries \cup
    {"Storage::get", "Storage::set", "Storage::remove", "Map::get", "Map::set", "Map::remove",
     "Vector::len", "Vector::get", "Vector::set", "Vector::push", "Vector::pop",
     "AccessControl::initialize", "AccessControl::grant_role", "AccessControl::revoke_role",
     "AccessControl::authorize", "AccessControl::transfer_ownership"}

GateCall(o) ==
    /\ storage' = o.st
    /\ last' = [NoCall EXCEPT !.op = o.op, !.res = o.res, !.calls = o.calls]
    /\ faulted' = (faulted \/ AnyFailed(o.calls))
    /\ UNCHANGED <<guardVars, rt, written>>

GateFailures == {{}, {1}}

GateStorage ==
    \E F \in GateFailures :
        \/ GateCall(Outcome("Storage::get", Storage_get(Host(storage), F, rt, "u64", Key1)))
        \/ GateCall(Outcome("Storage::set", Storage_set(Host(storage), F, rt, Key1, U64(1))))
        \/ GateCall(Outcome("Storage::remove", Storage_remove(Host(storage), F, rt, Key1)))
        \/ GateCall(BoolOutcome("Storage::has", Storage_has(Host(storage), F, rt, Key1)))

GateMap ==
    \E F \in GateFailures :
        \/ GateCall(Outcome("Map::get",
                            Map_get(Host(storage), F, rt, GatePrefix, "u64", GateKey)))
        \/ GateCall(Outcome("Map::set",
                            Map_set(Host(storage), F, rt, GatePrefix, GateKey, U64(1))))
        \/ GateCall(Outcome("Map::remove",
                            Map_remove(Host(storage), F, rt, GatePrefix, GateKey)))
        \/ GateCall(OkBoolOutcome("Map::contains_key",
                                  Map_contains_key(Host(storage), F, rt, GatePrefix, GateKey)))

GateVector ==
    \E F \in GateFailures :
        \/ GateCall(Outcome("Vector::len", Vector_len(Host(storage), F, rt, VecPrefix)))
        \/ GateCall(Outcome("Vector::get", Vector_get(Host(storage), F, rt, VecPrefix, 0)))
        \/ GateCall(Outcome("Vector::set",
                            Vector_set(Host(storage), F, rt, VecPrefix, 0, U64(9))))
        \/ GateCall(Outcome("Vector::pop", Vector_pop(Host(storage), F, rt, VecPrefix)))
        \/ /\ StoredLen < MaxVecLen
           /\ GateCall(Outcome("Vector::push",
                               Vector_push(Host(storage), F, rt, VecPrefix, U64(7))))

GateAccess ==
    \E F \in GateFailures :
        \/ GateCall(Outcome("AccessControl::initialize",
                            AccessControl_initialize(Host(storage), F, rt, AddrA)))
        \/ GateCall(Outcome("AccessControl::grant_role",
                            AccessControl_grant_role(Host(storage), F, rt, AddrA, AddrB, MINTER)))
        \/ GateCall(Outcome("AccessControl::revoke_role",
                            AccessControl_revoke_role(Host(storage), F, rt, AddrA, AddrB, MINTER)))
        \/ GateCall(Outcome("AccessControl::authorize",
                            AccessControl_authorize(Host(storage), F, rt, AddrB, Some(MINTER))))
        \/ GateCall(Outcome("AccessControl::transfer_ownership",
                            AccessControl_transfer_ownership(Host(storage), F, rt, AddrA, AddrB)))
        \/ GateCall(BoolOutcome("AccessControl::has_role",
                                AccessControl_has_role_host(Host(storage), F, rt, AddrB, MINTER)))

NextGate ==
    \/ prepare_mock_env
    \/ set_block_timestamp
    \/ SetContractAddress({EmptyStr, ContractA})
    \/ GateStorage
    \/ GateMap
    \/ GateVector
    \/ GateAccess

SpecGate == Init /\ [][NextGate]_vars

----------------------------------------------------------------------------
(* AccessControl: who can replace the owner *)

\* The calls of AccessControl that SpecAC makes.
ACOps == {"initialize", "grant_role", "revoke_role", "transfer_ownership", "authorize"}

\* The address is the stored owner or holds "admin" in the current table.
OwnerOrAdmin(address) == IsStoredOwner(address) \/ HoldsRole(address, ADMIN)

\* C34: once an owner is stored, a step replaces the stored owner only if it is a
\* transfer_ownership whose `current` is the stored owner, and an address gains "admin"
\* only through such a transfer or through a grant_role by the owner or an admin.
C34_OwnerChangesOnlyByTransfer ==
    [][(last'.op \in ACOps /\ rt' = rt /\ AccessControl_owner(storage, rt) # None) =>
        /\ AccessControl_owner(storage', rt) # AccessControl_owner(storage, rt) =>
              /\ last'.op = "transfer_ownership"
              /\ IsStoredOwner(last'.args[1])
        /\ \A a \in Addresses :
              (~HoldsRole(a, ADMIN) /\ AccessControl_has_role(storage', rt, a, ADMIN)) =>
                  \/ last'.op = "transfer_ownership" /\ IsStoredOwner(last'.args[1])
                  \/ last'.op = "grant_role" /\ OwnerOrAdmin(last'.args[1])]_vars

----------------------------------------------------------------------------
(* AccessControl: roles and addresses that contain ':' *)

\* "c" and "b:c"
PairAddresses == {<<99>>, <<98, 58, 99>>}
\* "a" and "a:b"
PairRoles == {<<97>>, <<97, 58, 98>>}

PairInitialize ==
    \E F \in Failures(2) :
        \E r \in {AccessControl_initialize(Host(storage), F, rt, AddrA)} :
            /\ storage' = r.h.st
            /\ last' = [op |-> "initialize", args |-> <<AddrA>>, res |-> r.res,
                        calls |-> r.h.calls, pre |-> <<>>]
            /\ faulted' = (faulted \/ AnyFailed(r.h.calls))
            /\ UNCHANGED <<guardVars, rt, written>>

PairGrantRole ==
    \E granter \in Addresses, address \in PairAddresses, role \in PairRoles, F \in Failures(3) :
        \E r \in {AccessControl_grant_role(Host(storage), F, rt, granter, address, role)} :
            /\ storage' = r.h.st
            /\ last' = [op |-> "grant_role", args |-> <<granter, address, role>>, res |-> r.res,
                        calls |-> r.h.calls, pre |-> <<>>]
            /\ faulted' = (faulted \/ AnyFailed(r.h.calls))
            /\ UNCHANGED <<guardVars, rt, written>>

PairRevokeRole ==
    \E revoker \in Addresses, address \in PairAddresses, role \in PairRoles, F \in Failures(3) :
        \E r \in {AccessControl_revoke_role(Host(storage), F, rt, revoker, address, role)} :
            /\ storage' = r.h.st
            /\ last' = [op |-> "revoke_role", args |-> <<revoker, address, role>>, res |-> r.res,
                        calls |-> r.h.calls, pre |-> <<>>]
            /\ faulted' = (faulted \/ AnyFailed(r.h.calls))
            /\ UNCHANGED <<guardVars, rt, written>>

NextPairs ==
    \/ prepare_mock_env
    \/ PairInitialize
    \/ PairGrantRole
    \/ PairRevokeRole

SpecPairs == Init /\ [][NextPairs]_vars

\* C35: has_role(a, r) becomes true only in a step that grants the pair (r, a) itself,
\* for roles and addresses that contain ':' as for others, so that a role is held only by
\* a pair that was granted and not since revoked.
C35_GrantsIndependent ==
    [][last'.op \in ACOps /\ rt' = rt =>
        \A a \in PairAddresses, r \in PairRoles :
            (~HoldsRole(a, r) /\ AccessControl_has_role(storage', rt, a, r)) =>
                /\ last'.op = "grant_role"
                /\ last'.args[2] = a
                /\ last'.args[3] = r]_vars

----------------------------------------------------------------------------
(* multisig: initialize called on an initialized wallet *)

\* The exported initialize reads no stored state before it writes: any sender may call it
\* again on a wallet that has a config.
MsReinitialize ==
    /\ Wallet(storage).config # None
    /\ Wallet(storage).owners_len # None => Wallet(storage).owners_len[1] < MaxOwnersLen
    /\ \E caller \in MsCallers, owners \in {<<"x">>, <<"o1">>}, threshold \in {1, 2},
          F \in OneFailure(5) :
         MsCall("initialize", <<caller>>,
                multisig_initialize(Wallet(storage), F, owners, threshold))

NextReinit ==
    \/ MsInitialize
    \/ MsReinitialize
    \/ MsSubmit

SpecReinit == Init /\ [][NextReinit]_vars

\* The accounts that is_owner_check accepts.
OwnerSet(st) == { o \in DOMAIN Wallet(st).is_owner : Wallet(st).is_owner[o] }

Threshold(st) == IF Wallet(st).config = None THEN None
                 ELSE Some(Wallet(st).config[1].threshold)

\* C36: on an initialized wallet a call changes the owner set or the threshold only if
\* its caller is an owner at the time of the call.
C36_OwnersChangedByOwnersOnly ==
    [][(/\ Wallet(storage).config # None
        /\ \/ OwnerSet(storage') # OwnerSet(storage)
           \/ Threshold(storage') # Threshold(storage))
       => (Len(last'.args) > 0 /\ last'.args[1] \in OwnerSet(storage))]_vars

----------------------------------------------------------------------------
(* dao-governor: proposals and votes *)

AGAINST == 0
FOR == 1
ABSTAIN == 2

\* balances is the token ledger: the governor reads it and has no entry point that
\* writes it. user_proposals, the owner and the roles of AccessControl, and the fields
\* title, description, targets, values, calldatas, executed_timestamp and timelock_id are
\* stored and not read by the entry points below: they are left out, and the host calls
\* that write them keep their ordinals.
EmptyGovernor == [config |-> None, balances |-> <<>>, proposals |-> <<>>, votes |-> <<>>]

\* The governor's table in storage; the initial storage is the empty governor.
Governor(st) == IF DOMAIN st = {} THEN EmptyGovernor ELSE st

\* get_timestamp(): the block timestamp, below 10^9 in this model.
governor_get_timestamp(r) == r.block_timestamp[3]

\* AccessControl::initialize(&deployer) makes call 1 and, when that succeeded, call 2;
\* its result is dropped. The config is written by the call after these.
governor_initialize(st, F, name, governance_token, timelock_contract, voting_delay, voting_period, proposal_threshold, quorum_votes) ==
    IF \/ name = EmptyStr
       \/ governance_token = EmptyStr
       \/ timelock_contract = EmptyStr
       \/ voting_delay = 0
       \/ voting_period = 0
       \/ proposal_threshold = 0
       \/ quorum_votes = 0
    THEN Stop(st)
    ELSE IF (IF 1 \in F THEN 2 ELSE 3) \in F THEN Stop(st)
    ELSE Done([st EXCEPT !.config =
                  Some([voting_delay |-> voting_delay, voting_period |-> voting_period,
                        proposal_threshold |-> proposal_threshold,
                        quorum_votes |-> quorum_votes, proposal_count |-> 0])])

\* has_proposal_power() as calls n and n + 1
has_proposal_power(st, F, n, caller) ==
    /\ Rd(F, n, st.config) # None
    /\ Rd(F, n + 1, GetOpt(st.balances, caller)) # None
    /\ st.balances[caller] >= st.config[1].proposal_threshold

\* Calls 5 and 6 read and write user_proposals, call 7 writes the config.
governor_propose(st, F, now, proposer, title, description, targets, values, calldatas) ==
    IF ~has_proposal_power(st, F, 1, proposer) THEN Stop(st)
    ELSE IF title = EmptyStr \/ description = EmptyStr \/ Len(targets) = 0 THEN Stop(st)
    ELSE IF Len(targets) # Len(values) \/ Len(targets) # Len(calldatas) THEN Stop(st)
    ELSE IF Rd(F, 3, st.config) = None THEN Stop(st)
    ELSE IF 4 \in F THEN Stop(st)
    ELSE Only({ IF 6 \in F THEN Stop(st1)
                ELSE IF 7 \in F THEN Stop(st1)
                ELSE Done([st1 EXCEPT !.config[1].proposal_count = @ + 1])
                : st1 \in {[st EXCEPT !.proposals =
                     Put(@, st.config[1].proposal_count,
                         [proposer |-> proposer,
                          start_timestamp |-> now + st.config[1].voting_delay,
                          end_timestamp |-> now + st.config[1].voting_delay
                                                + st.config[1].voting_period,
                          executed |-> FALSE, cancelled |-> FALSE,
                          for_votes |-> 0, against_votes |-> 0, abstain_votes |-> 0])]} })

\* The proposal with the voting power added to the tally of the choice.
AddVote(proposal, choice, voting_power) ==
    CASE choice = FOR -> [proposal EXCEPT !.for_votes = @ + voting_power]
      [] choice = AGAINST -> [proposal EXCEPT !.against_votes = @ + voting_power]
      [] choice = ABSTAIN -> [proposal EXCEPT !.abstain_votes = @ + voting_power]

governor_cast_vote(st, F, now, voter, proposal_id, choice) ==
    IF choice > 2 THEN Stop(st)
    ELSE IF Rd(F, 1, GetOpt(st.proposals, proposal_id)) = None THEN Stop(st)
    ELSE IF now < st.proposals[proposal_id].start_timestamp THEN Stop(st)
    ELSE IF now > st.proposals[proposal_id].end_timestamp THEN Stop(st)
    ELSE IF st.proposals[proposal_id].executed \/ st.proposals[proposal_id].cancelled
         THEN Stop(st)
    ELSE IF Rd(F, 2, GetOpt(st.votes, <<proposal_id, voter>>)) # None THEN Stop(st)
    ELSE IF Rd(F, 3, GetOpt(st.balances, voter)) = None THEN Stop(st)
    ELSE IF 4 \in F THEN Stop(st)
    ELSE Only({ IF 5 \in F THEN Stop(st1)
                ELSE Done([st1 EXCEPT !.proposals[proposal_id] =
                                          AddVote(@, choice, st.balances[voter])])
                : st1 \in {[st EXCEPT !.votes =
                     Put(@, <<proposal_id, voter>>,
                         [choice |-> choice, weight |-> st.balances[voter]])]} })

\* An execute that does not look at the quorum.
governor_execute_NoQuorum(st, F, now, proposal_id) ==
    IF Rd(F, 1, GetOpt(st.proposals, proposal_id)) = None THEN Stop(st)
    ELSE IF now <= st.proposals[proposal_id].end_timestamp THEN Stop(st)
    ELSE IF st.proposals[proposal_id].executed THEN Stop(st)
    ELSE IF st.proposals[proposal_id].cancelled THEN Stop(st)
    ELSE IF Rd(F, 2, st.config) = None THEN Stop(st)
    ELSE IF st.proposals[proposal_id].for_votes <= st.proposals[proposal_id].against_votes
         THEN IF 3 \in F THEN Stop(st)
              ELSE Stop([st EXCEPT !.proposals[proposal_id].cancelled = TRUE])
    ELSE IF 3 \in F THEN Stop(st)
    ELSE Done([st EXCEPT !.proposals[proposal_id].executed = TRUE])

\* The two paths that find the proposal defeated mark it cancelled and return.
governor_execute(st, F, now, proposal_id) ==
    IF Rd(F, 1, GetOpt(st.proposals, proposal_id)) = None THEN Stop(st)
    ELSE IF now <= st.proposals[proposal_id].end_timestamp THEN Stop(st)
    ELSE IF st.proposals[proposal_id].executed THEN Stop(st)
    ELSE IF st.proposals[proposal_id].cancelled THEN Stop(st)
    ELSE IF Rd(F, 2, st.config) = None THEN Stop(st)
    ELSE IF \/ st.proposals[proposal_id].for_votes <= st.proposals[proposal_id].against_votes
            \/ st.proposals[proposal_id].for_votes < st.config[1].quorum_votes
         THEN IF 3 \in F THEN Stop(st)
              ELSE Stop([st EXCEPT !.proposals[proposal_id].cancelled = TRUE])
    ELSE IF 3 \in F THEN Stop(st)
    ELSE Done([st EXCEPT !.proposals[proposal_id].executed = TRUE])

governor_cancel(st, F, now, canceller, proposal_id) ==
    IF Rd(F, 1, GetOpt(st.proposals, proposal_id)) = None THEN Stop(st)
    ELSE IF st.proposals[proposal_id].executed THEN Stop(st)
    ELSE IF st.proposals[proposal_id].cancelled THEN Stop(st)
    ELSE IF /\ st.proposals[proposal_id].proposer # canceller
            /\ now <= st.proposals[proposal_id].end_timestamp THEN Stop(st)
    ELSE IF 2 \in F THEN Stop(st)
    ELSE Done([st EXCEPT !.proposals[proposal_id].cancelled = TRUE])

\* has_voted() on table st with the host answering.
governor_has_voted(st, proposal_id, voter) == <<proposal_id, voter>> \in DOMAIN st.votes

GovAccounts == {"v1", "v2", "x"}
GovLedger == [a \in {"v1", "v2"} |-> IF a = "v1" THEN 2 ELSE 1]
ProposalIds == 0 .. (MaxProposals - 1)
GovName == <<103>>      \* "g"

\* A call of the governor: its name, whether it ran to its end, and the table it leaves.
GovCall(name, args, r) ==
    /\ storage' = r.st
    /\ last' = [NoCall EXCEPT !.op = name, !.args = args,
                              !.res = IF r.ok THEN Ok(Unit) ELSE Err("returned early")]
    /\ UNCHANGED <<guardVars, rt, faulted, written>>

\* The host holds the token balances of the governor's accounts.
GovSeedBalances ==
    /\ Governor(storage).balances = <<>>
    /\ storage' = [Governor(storage) EXCEPT !.balances = GovLedger]
    /\ last' = [NoCall EXCEPT !.op = "seed_balances"]
    /\ UNCHANGED <<guardVars, rt, faulted, written>>

\* The exported initialize reads no stored state: it can be called at any time.
GovInitialize ==
    \E voting_delay \in {0, 1}, F \in OneFailure(3) :
        GovCall("initialize", <<>>,
                governor_initialize(Governor(storage), F, GovName, GovName, GovName,
                                    voting_delay, 1, 1, 2))

GovPropose ==
    /\ Governor(storage).config # None
          => Governor(storage).config[1].proposal_count < MaxProposals
    /\ \E proposer \in {"v1", "x"}, title \in {EmptyStr, GovName}, F \in OneFailure(7) :
         GovCall("propose", <<>>,
                 governor_propose(Governor(storage), F, governor_get_timestamp(rt),
                                  proposer, title, GovName, <<GovName>>, <<0>>, <<EmptyStr>>))

\* The votes counted on the proposal.
Tally(st, proposal_id) ==
    st.proposals[proposal_id].for_votes + st.proposals[proposal_id].against_votes
        + st.proposals[proposal_id].abstain_votes

GovCastVote ==
    \E voter \in GovAccounts, proposal_id \in ProposalIds, choice \in 0 .. 3,
       F \in OneFailure(5) :
        /\ proposal_id \in DOMAIN Governor(storage).proposals
              => Tally(Governor(storage), proposal_id) < MaxTally
        /\ GovCall("cast_vote", <<>>,
                   governor_cast_vote(Governor(storage), F, governor_get_timestamp(rt),
                                      voter, proposal_id, choice))

GovExecute ==
    \E proposal_id \in ProposalIds, F \in OneFailure(3) :
        GovCall("execute", <<proposal_id>>,
                governor_execute(Governor(storage), F, governor_get_timestamp(rt),
                                 proposal_id))

GovCancel ==
    \E canceller \in {"v1", "x"}, proposal_id \in ProposalIds, F \in OneFailure(2) :
        GovCall("cancel", <<proposal_id>>,
                governor_cancel(Governor(storage), F, governor_get_timestamp(rt),
                                canceller, proposal_id))

GovSetBlockTimestamp == SetBlockTimestamp({Big(0), Big(1), Big(3)})

NextGovernor ==
    \/ GovSeedBalances
    \/ GovInitialize
    \/ GovPropose
    \/ GovCastVote
    \/ GovExecute
    \/ GovCancel
    \/ GovSetBlockTimestamp

SpecGovernor == Init /\ [][NextGovernor]_vars

\* The sum of the weights of the Vote records stored for the proposal by the voters of S.
RECURSIVE VoteWeights(_, _, _)
VoteWeights(st, proposal_id, S) ==
    IF S = {} THEN 0
    ELSE Only({ (IF governor_has_voted(st, proposal_id, v)
                 THEN st.votes[<<proposal_id, v>>].weight ELSE 0)
                + VoteWeights(st, proposal_id, S \ {v})
                : v \in {CHOOSE x \in S : TRUE} })

\* C37: the three tallies of every stored proposal add up to the weights of the Vote
\* records stored for it, whose voters are the accounts for which has_voted is true.
C37_TalliesMatchVotes ==
    \A proposal_id \in DOMAIN Governor(storage).proposals :
        Tally(Governor(storage), proposal_id)
            = VoteWeights(Governor(storage), proposal_id, GovAccounts)

GovExecuted(st, proposal_id) ==
    proposal_id \in DOMAIN Governor(st).proposals
        /\ Governor(st).proposals[proposal_id].executed

GovCancelled(st, proposal_id) ==
    proposal_id \in DOMAIN Governor(st).proposals
        /\ Governor(st).proposals[proposal_id].cancelled

\* The conditions of the stored proposal under which execute may mark it executed.
Passed(st, now, proposal_id) ==
    /\ proposal_id \in DOMAIN Governor(st).proposals
    /\ Governor(st).config # None
    /\ now > Governor(st).proposals[proposal_id].end_timestamp
    /\ ~Governor(st).proposals[proposal_id].cancelled
    /\ ~Governor(st).proposals[proposal_id].executed
    /\ Governor(st).proposals[proposal_id].for_votes
           > Governor(st).proposals[proposal_id].against_votes
    /\ Governor(st).proposals[proposal_id].for_votes >= Governor(st).config[1].quorum_votes

\* C38: a step marks a proposal executed only if it is an execute of that proposal made
\* with the block time after end_timestamp, the proposal not cancelled and not executed,
\* for_votes above against_votes and at least quorum_votes; and no stored proposal is
\* both executed and cancelled.
C38_ExecuteOnlyWhenPassed ==
    /\ [](\A proposal_id \in ProposalIds :
             ~(GovExecuted(storage, proposal_id) /\ GovCancelled(storage, proposal_id)))
    /\ [][\A proposal_id \in ProposalIds :
             (~GovExecuted(storage, proposal_id) /\ GovExecuted(storage', proposal_id)) =>
                 /\ last'.op = "execute"
                 /\ last'.args = <<proposal_id>>
                 /\ Passed(storage, governor_get_timestamp(rt), proposal_id)]_vars

C38_Witness ==
    /\ last.op = "execute"
    /\ last.res.ok
    /\ GovExecuted(storage, 0)
    /\ Governor(storage).proposals[0].against_votes > 0

\* The proposal_count of the stored config, 0 before any config is stored.
ProposalCount(st) ==
    IF Governor(st).config = None THEN 0 ELSE Governor(st).config[1].proposal_count

\* C39: proposal_count never decreases, and a propose leaves every proposal record that
\* was stored before it as it was.
C39_ProposalIdsFresh ==
    [][/\ ProposalCount(storage') >= ProposalCount(storage)
       /\ last'.op = "propose" =>
             \A proposal_id \in DOMAIN Governor(storage).proposals :
                 Governor(storage').proposals[proposal_id]
                     = Governor(storage).proposals[proposal_id]]_vars

----------------------------------------------------------------------------
(* timelock: role counts *)

\* The exported initialize reads no stored state: any sender may call it at any time,
\* and becomes the deployer of that call.
TlReinitialize ==
    \E deployer \in TlAccounts, F \in TlInitFailures :
        TlCall("initialize", <<deployer>>,
               timelock_initialize(Timelock(storage), F, deployer))

NextRoles ==
    \/ TlReinitialize
    \/ TlGrantRole
    \/ TlRevokeRole
    \/ TlUpdateDelay

SpecRoles == Init /\ [][NextRoles]_vars

TlRoles == {"PROPOSER_ROLE", "EXECUTOR_ROLE", "CANCELLER_ROLE", "ADMIN_ROLE"}

\* The accounts for which has_role answers true.
RoleHolders(st, role) ==
    { a \in TlAccounts : timelock_has_role(Timelock(st), {}, 1, role, a) }

\* The stored count of the role, read as the entry points read it.
StoredRoleCount(st, role) == RoleCountOr(Timelock(st), {}, 1, role, 0)

\* C40: once a config is stored, the stored count of every role is the number of
\* accounts that hold the role, and the count of ADMIN_ROLE is at least 1.
C40_RoleCountsMatchHolders ==
    Timelock(storage).config # None =>
        /\ \A role \in TlRoles :
              StoredRoleCount(storage, role) = Cardinality(RoleHolders(storage, role))
        /\ StoredRoleCount(storage, "ADMIN_ROLE") >= 1

====
